---- MODULE Spec2Model ----
(***************************************************************************)
(* KLA (Kommand Line Automation): the session engine.                      *)
(*                                                                         *)
(* Part 1 (specification Spec): the functions that own a session           *)
(* (record_command, demo_command, screenshot_command, Kla::execute_script) *)
(* driving a Terminal through the steps of a script, and the Drop of the   *)
(* Terminal when the owning function returns.                              *)
(*                                                                         *)
(* Part 2 (specifications SpecBuf, SpecWait, FairSpecWait, SpecOwner,      *)
(* FairSpecOwner): the capture thread appending PTY output to the shared   *)
(* buffer while the session owner calls get_output and clear_buffer, or    *)
(* wait_for_output, or is suspended and takes snapshots step by step.      *)
(*                                                                         *)
(* Part 3 (specification SpecRec): a MediaRecorder driven through its API, *)
(* start_gif_recording, capture_gif_frame, stop_gif_recording.             *)
(*                                                                         *)
(* Part 4 (specifications SpecGrid, SpecFind): the TerminalState grid,     *)
(* set_char with resize, and set_char with find_text.                      *)
(*                                                                         *)
(* Part 5 (specifications SpecDur, SpecSer): parse_duration, and a Script  *)
(* serialized and loaded back.                                             *)
(*                                                                         *)
(* Part 6 (specification SpecGif): a GifRecorder driven through its API,   *)
(* capture_frame, save_gif, frame_count, clear_frames.                     *)
(***************************************************************************)
EXTENDS Integers, Sequences, FiniteSets, TLC

VARIABLES
    \* ---- part 1: script execution ----
    owner,        \* which function owns the session
    interactive,  \* demo_command's `interactive` argument
    script,       \* script.steps (immutable input)
    pc,           \* position of the owning function
    stepIndex,    \* number of loop iterations finished (the enumerate() index)
    charIndex,    \* type_text: index of the next character of `text`
    trace,        \* every effect performed so far, in order
    completed,    \* 1-based numbers of the steps whose match arm ran to its end
    result,       \* what the owning function returned: "none" | "ok" | "err"
    child,        \* the shell process: "none" | "running" | "exited" | "killed" | "reaped"
    dropLog,      \* calls made on `child` by Drop for Terminal
    gif_generator,\* MediaRecorder.gif_generator: "None" | "Some"
    recordings,   \* Kla::execute_script's `recordings` vector
    \* ---- part 2: capture buffer ----
    ptyAvail,     \* bytes the shell wrote that the reader has not read yet
    emitted,      \* number of bytes the shell has written so far
    ptyOpen,      \* FALSE once the PTY reports end-of-stream / a read error
    cpc,          \* position of the capture thread: "read" | "lock_buffer" | "push" | "sleep" | "exited"
    chunk,        \* buf[..n] of the capture thread's last read
    bufLock,      \* holder of the buffer mutex: "free" | "capture" | "owner"
    buffer,       \* the shared String
    snaps,        \* snapshots get_output returned to the owner, with the clear epoch
    epoch,        \* number of clear_buffer calls so far
    wpc,          \* position of wait_for_output: "idle" | "test" | "poll" | "sleep" | "done"
    wpattern,     \* its `pattern`
    wtimeout,     \* its `timeout_duration` (ms)
    elapsed,      \* start.elapsed() (ms), saturated
    wakeAt,       \* elapsed time at which the latest poll sleep is over
    polls,        \* number of times the loop body read the buffer
    wresult,      \* its return value: "none" | "Ok(true)" | "Ok(false)"
    appeared,     \* history: pattern was in the buffer at some moment of [call, call+timeout)
    \* ---- part 3: the media recorder ----
    frames,       \* frames written to the encoder of the active GifGenerator
    encodes,      \* GifGenerator::save calls so far: the path and the frames handed over
    confirms,     \* demo_command: the steps before which read_line was called
    callLog,      \* log of the calls made on a MediaRecorder through its API
    \* ---- part 4: the terminal state model ----
    size,         \* TerminalState.size
    cursor,       \* TerminalState.cursor
    grid,         \* TerminalState.buffer: rows of cells
    title,        \* TerminalState.title
    cursor_visible, \* TerminalState.cursor_visible
    panicked,     \* a call on the TerminalState panicked
    sets,         \* number of set_char calls so far
    new_size,     \* the argument of the latest resize call
    resizeRun,    \* number of resize calls since the last set_char (counted up to 2)
    prev,         \* the TerminalState before the latest resize
    prev2,        \* the TerminalState before the resize preceding the latest one
    needle,       \* the `text` of the latest find_text call
    found,        \* what the latest find_text call returned
    \* ---- part 1, continued: the library entry points ----
    screenshots,  \* Kla::execute_script's `screenshots` vector
    \* ---- part 2, continued: history of the capture thread, the owner's position ----
    readBytes,    \* history: every byte the capture thread has read, in read order
    appended,     \* history: the texts pushed to the buffer since the latest clear_buffer
    ipc,          \* position of the owner: "run" | "suspended" | "lock_buffer" | "copy"
    suspensions,  \* number of suspensions of the owner so far
    seenAtSuspend,\* history: length of the buffer when the current suspension began
    \* ---- part 5: script files ----
    dtext,        \* the `s` of a parse_duration call
    dresult,      \* what the call returned
    value,        \* a Script value
    spc,          \* "text" | "parsed", or "value" | "saved" | "loaded"
    document,     \* what serialization produced from `value`
    loaded,       \* what loading `document` returned
    \* ---- part 1, continued: Terminal::new ----
    session,      \* Terminal::new returned Ok: a Terminal value was constructed
    readers,      \* number of capture threads spawned
    \* ---- part 4, continued ----
    lastSet,      \* the x and y of the latest set_char call, if no resize followed it
    contained,    \* what contains_text returned for `needle`: "none" | "true" | "false"
    \* ---- part 6: the GifRecorder ----
    gframes,      \* GifRecorder.frames
    glog          \* log of the calls made on the GifRecorder

scriptVars == <<owner, interactive, script, pc, stepIndex, charIndex, trace,
                completed, result, child, dropLog, gif_generator, recordings>>
bufVars == <<ptyAvail, emitted, ptyOpen, cpc, chunk, bufLock, buffer, snaps, epoch,
             wpc, wpattern, wtimeout, elapsed, wakeAt, polls, wresult, appeared>>
recVars == <<frames, encodes, confirms, callLog>>
gridVars == <<size, cursor, grid, title, cursor_visible, panicked, sets, new_size, resizeRun,
              prev, prev2, needle, found, lastSet, contained>>
libVars == <<screenshots>>
capVars == <<readBytes, appended, ipc, suspensions, seenAtSuspend>>
serVars == <<dtext, dresult, value, spc, document, loaded>>
sessVars == <<session, readers>>
gifVars == <<gframes, glog>>
vars == <<scriptVars, bufVars, recVars, gridVars, libVars, capVars, serVars, sessVars,
          gifVars>>

(***************************************************************************)
(* Bounds                                                                  *)
(***************************************************************************)
MaxSteps == 2      \* longest script
MaxOut == 2        \* bytes the shell writes to the PTY in one run
MaxSnaps == 3      \* get_output calls by the owner in one run
MaxClears == 1     \* clear_buffer calls in one run
TicksPerPoll == 2  \* clock resolution: ticks per poll interval
MaxTimeoutTicks == 3 \* longest `timeout_duration`, in ticks
MaxCalls == 4      \* calls made on one MediaRecorder through its API
MaxSets == 2       \* set_char calls on one TerminalState
MaxSuspensions == 1 \* suspensions of the owner in one run
MaxGifCalls == 5   \* calls made on one GifRecorder

LineTerminator == "\n"

\* the `text` of Command and Type steps: empty, one character, two different
\* characters, three with a repetition
Texts == {<<>>, <<"a">>, <<"a", "b">>, <<"b", "a", "a">>}
WaitDurations == {200}     \* ms, Command.wait when present
TypeSpeeds == {50}         \* ms, Type.speed
GifDurations == {1000}     \* ms, RecordGif.duration
Names == {"s1", "s2"}

(***************************************************************************)
(* Script data model (script/mod.rs)                                       *)
(***************************************************************************)
CommandStep(t, w, d) ==
    [type |-> "command", text |-> t, hasWait |-> w, dur |-> d, name |-> ""]
TypeStep(t, d) ==
    [type |-> "type", text |-> t, hasWait |-> FALSE, dur |-> d, name |-> ""]
ScreenshotStep(n) ==
    [type |-> "screenshot", text |-> <<>>, hasWait |-> FALSE, dur |-> 0, name |-> n]
RecordGifStep(d, n) ==
    [type |-> "record_gif", text |-> <<>>, hasWait |-> FALSE, dur |-> d, name |-> n]

StepType ==
    {CommandStep(t, FALSE, 0) : t \in Texts}
    \cup {CommandStep(t, TRUE, d) : t \in Texts, d \in WaitDurations}
    \cup {TypeStep(t, d) : t \in Texts, d \in TypeSpeeds}
    \cup {ScreenshotStep(n) : n \in Names}
    \cup {RecordGifStep(d, n) : d \in GifDurations, n \in Names}

Scripts == UNION {[1..n -> StepType] : n \in 0..MaxSteps}

SingleCommandWait == 500
single_command(command) == <<CommandStep(command, TRUE, SingleCommandWait)>>

(***************************************************************************)
(* Effects                                                                 *)
(***************************************************************************)
Event(step, op, text, dur, name, ok, active) ==
    [step |-> step, op |-> op, text |-> text, dur |-> dur, name |-> name,
     ok |-> ok, active |-> active]

Recording == gif_generator = "Some"

WriteEv(step, bytes, ok) == Event(step, "write", bytes, 0, "", ok, Recording)
FlushEv(step, ok) == Event(step, "flush", <<>>, 0, "", ok, Recording)
SleepEv(step, d) == Event(step, "sleep", <<>>, d, "", TRUE, Recording)
RenderEv(step, path, ok) == Event(step, "render", <<>>, 0, path, ok, Recording)
StartEv(step, ok) == Event(step, "start", <<>>, 0, "", ok, Recording)
StopEv(step, path, ok) == Event(step, "stop", <<>>, 0, path, ok, Recording)

\* (mutation) every screenshot goes to the same file
PngPathUnnamed(name) == <<"screenshot", "png">>

\* output_dir.join(format!("{}.png", name)) / format!("{}.gif", name)
PngPath(name) == <<name, "png">>
GifPath(name) == <<name, "gif">>

\* (mutation) a failed write is made once more
send_input_retrying(step, input) ==
    {[ok |-> TRUE, events |-> <<WriteEv(step, input, TRUE), FlushEv(step, TRUE)>>],
     [ok |-> FALSE, events |-> <<WriteEv(step, input, TRUE), FlushEv(step, FALSE)>>]}
    \cup {[ok |-> TRUE, events |-> <<WriteEv(step, SubSeq(input, 1, n), FALSE),
                                     WriteEv(step, input, TRUE), FlushEv(step, TRUE)>>] :
            n \in 0..(Len(input) - 1)}

\* Terminal::send_input: write_all then flush, each with `?`.
\* A failing write_all has passed some proper prefix of the bytes to the PTY.
send_input(step, input) ==
    {[ok |-> TRUE, events |-> <<WriteEv(step, input, TRUE), FlushEv(step, TRUE)>>],
     [ok |-> FALSE, events |-> <<WriteEv(step, input, TRUE), FlushEv(step, FALSE)>>]}
    \cup {[ok |-> FALSE, events |-> <<WriteEv(step, SubSeq(input, 1, n), FALSE)>>] :
            n \in 0..(Len(input) - 1)}

\* (mutation) the line terminator is forgotten
CommandInputNoTerminator(command) == command

\* Terminal::execute_command: format!("{}\n", command)
CommandInput(command) == Append(command, LineTerminator)

\* (mutation) the characters are taken from the end
TypeCharReversed(text, k) == <<text[Len(text) + 1 - k]>>

\* Terminal::type_text: the k-th item of text.chars()
TypeChar(text, k) == <<text[k]>>

\* (mutation) the error is swallowed and execution continues
QuestionMarkIgnored(ok, next) == next

\* The `?` operator: continue at `next` on Ok, return the error on Err.
QuestionMark(ok, next) == IF ok THEN next ELSE "ret_err"

\* (mutation) every other step is skipped
NextIndexSkipping(i) == i + 2

\* for (i, step) in script.steps.iter().enumerate(): the index after step i
NextIndex(i) == i + 1

\* (mutation) the child is killed but never waited for
TerminalDropNoWait == <<"kill">>

\* Drop for Terminal: the calls made on the child, in order.
TerminalDrop == <<"kill", "wait">>

\* portable_pty Child::kill / Child::wait as seen by the process table.
ChildAfter(c, call) ==
    IF call = "kill" THEN (IF c = "running" THEN "killed" ELSE c) ELSE "reaped"

RECURSIVE ChildAfterAll(_, _)
ChildAfterAll(c, calls) ==
    IF calls = <<>> THEN c
    ELSE ChildAfterAll(ChildAfter(c, Head(calls)), Tail(calls))

\* (mutation) the generator is read but left in place
TakeGeneratorKept(g) == g

\* MediaRecorder::stop_gif_recording: self.gif_generator.take()
TakeGenerator(g) == "None"

\* the callers of Kla::execute_script: a library user, and Kla::screenshot
ExecOwners == {"execute_script", "kla_screenshot"}
LoopOwners == {"record", "demo"} \cup ExecOwners
Owners == LoopOwners \cup {"screenshot"}

\* Kla::screenshot: result.screenshots.into_iter().next().ok_or_else(..)
FirstScreenshot(shots) == IF shots # <<>> THEN "ok" ELSE "err"

\* what the owning function returns when its body ran to the end
ReturnValue(o, shots) == IF o = "kla_screenshot" THEN FirstScreenshot(shots) ELSE "ok"

Cur == script[stepIndex + 1]
StepNo == stepIndex + 1

(***************************************************************************)
(* The media recorder (media/recorder.rs, media/gif.rs)                    *)
(***************************************************************************)
\* MediaRecorder::start_gif_recording: GifGenerator::new(..)? and then the assignment
\* self.gif_generator = Some(..); on Err the field is left as it was
StartGenerator(g, ok) == IF ok THEN "Some" ELSE g
\* the encoder of a new GifGenerator has been given no frame
StartFrames(f, ok) == IF ok THEN 0 ELSE f

\* (mutation) a frame is captured whether or not a recording is active
CaptureActiveAlways(g) == TRUE

\* MediaRecorder::capture_gif_frame: if let Some(ref mut gif_gen) = self.gif_generator
CaptureActive(g) == g = "Some"

\* GifGenerator::add_frame: the frame is rendered (generate), loaded, and written to the
\* encoder (write_frame), each step with `?`
AddFrameOutcomes == {"ok", "render_err", "write_err"}

\* (mutation) the generator is saved whether or not a recording is active
StopActiveAlways(g) == TRUE

\* MediaRecorder::stop_gif_recording: if let Some(gif_gen) = self.gif_generator.take()
StopActive(g) == g = "Some"

\* GifGenerator::save(output_path): the request to produce the artifact, with the frames
\* the generator's encoder has been given
EncodeRequest(path, n, step) == [path |-> path, frames |-> n, step |-> step]

\* (mutation) the prompt is shown whether or not --interactive was given
ConfirmBeforeAlways(o, i) == o = "demo"

\* demo_command: if interactive { .. read_line(&mut input)?; }
ConfirmBefore(o, i) == o = "demo" /\ i

RecIdle ==
    /\ frames = 0
    /\ encodes = <<>>
    /\ confirms = <<>>
    /\ callLog = <<>>

(***************************************************************************)
(* The terminal state model (terminal.rs): data                            *)
(***************************************************************************)
\* TerminalSize::new(width, height)
TerminalSize(w, h) == [width |-> w, height |-> h]
\* CursorPosition::new(x, y)
CursorPosition(x, y) == [x |-> x, y |-> y]
\* TerminalChar { ch, attrs }: of the attributes, bold stands for all six
TerminalChar(ch, bold) == [ch |-> ch, bold |-> bold]
\* TerminalChar::default(): ' ' with CharAttributes::default()
DefaultChar == TerminalChar(" ", FALSE)
\* Option<CursorPosition>
None == [some |-> FALSE, x |-> 0, y |-> 0]
Some(x, y) == [some |-> TRUE, x |-> x, y |-> y]

\* the fields of a TerminalState
State(sz, cur, buf, t, vis) ==
    [size |-> sz, cursor |-> cur, grid |-> buf, title |-> t, cursor_visible |-> vis]

GridIdle ==
    /\ size = TerminalSize(0, 0)
    /\ cursor = CursorPosition(0, 0)
    /\ grid = <<>>
    /\ title = ""
    /\ cursor_visible = TRUE
    /\ panicked = FALSE
    /\ sets = 0
    /\ new_size = TerminalSize(0, 0)
    /\ resizeRun = 0
    /\ prev = State(TerminalSize(0, 0), CursorPosition(0, 0), <<>>, "", TRUE)
    /\ prev2 = State(TerminalSize(0, 0), CursorPosition(0, 0), <<>>, "", TRUE)
    /\ needle = <<>>
    /\ found = None
    /\ lastSet = None
    /\ contained = "none"

LibIdle == screenshots = <<>>

GifIdle ==
    /\ gframes = <<>>
    /\ glog = <<>>

CapIdle ==
    /\ readBytes = <<>>
    /\ appended = <<>>
    /\ ipc = "run"
    /\ suspensions = 0
    /\ seenAtSuspend = 0

SerIdle ==
    /\ dtext = <<>>
    /\ dresult = [ok |-> FALSE, val |-> [secs |-> 0, nanos |-> 0]]
    /\ value = [name |-> "", steps |-> <<>>]
    /\ spc = "idle"
    /\ document = [name |-> "", steps |-> <<>>]
    /\ loaded = [ok |-> FALSE, name |-> "", steps |-> <<>>]

(***************************************************************************)
(* Part 1: actions                                                         *)
(***************************************************************************)
ScriptInit ==
    /\ owner \in Owners
    /\ interactive \in (IF owner = "demo" THEN BOOLEAN ELSE {FALSE})
    /\ script \in (IF owner \in {"screenshot", "kla_screenshot"}
                      THEN {single_command(t) : t \in Texts}
                      ELSE Scripts)
    /\ pc = "new"
    /\ stepIndex = 0
    /\ charIndex = 1
    /\ trace = <<>>
    /\ completed = <<>>
    /\ result = "none"
    /\ child = "none"
    /\ dropLog = <<>>
    /\ gif_generator = "None"
    /\ recordings = <<>>
    /\ session = FALSE
    /\ readers = 0

BufIdle ==
    /\ ptyAvail = <<>>
    /\ emitted = 0
    /\ ptyOpen = TRUE
    /\ cpc = "read"
    /\ chunk = <<>>
    /\ bufLock = "free"
    /\ buffer = <<>>
    /\ snaps = <<>>
    /\ epoch = 0
    /\ wpc = "idle"
    /\ wpattern = <<>>
    /\ wtimeout = 0
    /\ elapsed = 0
    /\ wakeAt = 0
    /\ polls = 0
    /\ wresult = "none"
    /\ appeared = FALSE

Init == ScriptInit /\ BufIdle /\ RecIdle /\ GridIdle /\ LibIdle /\ CapIdle /\ SerIdle /\ GifIdle

\* the calls of Terminal::new that return through `?`, in the order they are made
NewCalls == <<"openpty", "spawn_command", "take_writer", "try_clone_reader">>
\* the calls of Terminal::new that were made before it returned with `outcome`: all of
\* them when it returned Ok, those up to the failing one otherwise
CallsMade(outcome) ==
    IF outcome = "ok" THEN NewCalls
    ELSE SubSeq(NewCalls, 1, CHOOSE i \in 1..Len(NewCalls) : NewCalls[i] = outcome)
\* the child after Terminal::new returned with `outcome`: spawn_command created it once
\* it succeeded, and no later `?` of Terminal::new kills or waits for it (the local
\* `child` handle is dropped, which does neither)
ChildAfterNew(outcome) ==
    IF \E i \in 1..Len(CallsMade(outcome)) :
          CallsMade(outcome)[i] = "spawn_command" /\ outcome # "spawn_command"
    THEN "running" ELSE "none"
\* the capture threads after Terminal::new returned with `outcome`: thread::spawn comes
\* after the last `?`
ReadersAfterNew(outcome) == IF outcome = "ok" THEN 1 ELSE 0

\* TerminalController::new(&script.settings)?, which is Terminal::new(settings)?
TerminalNew ==
    /\ pc = "new"
    /\ \E outcome \in {"ok"} \cup {NewCalls[i] : i \in 1..Len(NewCalls)} :
        /\ child' = ChildAfterNew(outcome)
        /\ readers' = ReadersAfterNew(outcome)
        /\ session' = (outcome = "ok")
        /\ pc' = QuestionMark(outcome = "ok", IF owner = "screenshot" THEN "command"
                                              ELSE IF owner = "demo" THEN "loop"
                                              ELSE "recorder")
    /\ UNCHANGED <<bufVars, libVars, capVars, serVars, gifVars,
                   recVars, gridVars,
                   owner, interactive, script, stepIndex, charIndex, trace, completed,
                   result, dropLog, gif_generator, recordings>>

\* MediaRecorder::new(..)?  (create_dir_all may fail)
MediaRecorderNew ==
    /\ pc = "recorder"
    /\ \E ok \in BOOLEAN :
        pc' = QuestionMark(ok, IF owner = "screenshot" THEN "screenshot" ELSE "loop")
    /\ UNCHANGED <<bufVars, libVars, capVars, serVars, sessVars, gifVars,
                   recVars, gridVars,
                   owner, interactive, script, stepIndex, charIndex, trace, completed,
                   result, child, dropLog, gif_generator, recordings>>

\* the head of `for (i, step) in script.steps.iter().enumerate()`; in demo_command
\* with --interactive, the read_line()? before the match
LoopHead ==
    /\ pc = "loop"
    /\ IF stepIndex < Len(script)
       THEN IF owner = "demo" /\ interactive
            THEN \E ok \in BOOLEAN : pc' = QuestionMark(ok, "step")
            ELSE pc' = "step"
       ELSE pc' = "ret_ok"
    /\ confirms' = IF stepIndex < Len(script) /\ ConfirmBefore(owner, interactive)
                   THEN Append(confirms, StepNo)
                   ELSE confirms
    /\ UNCHANGED <<bufVars, libVars, capVars, serVars, sessVars, gifVars,
                   gridVars, frames, encodes, callLog, owner, interactive, script,
                   stepIndex, charIndex, trace, completed, result, child, dropLog,
                   gif_generator, recordings>>

\* the end of one match arm: the loop moves to the next step
Advance ==
    /\ completed' = Append(completed, StepNo)
    /\ stepIndex' = NextIndex(stepIndex)
    /\ charIndex' = 1

\* StepType::Command arm: terminal.execute_command(text).await?
StepCommand ==
    /\ pc = "step" /\ owner \in LoopOwners /\ Cur.type = "command"
    /\ \E o \in send_input(StepNo, CommandInput(Cur.text)) :
        /\ trace' = trace \o o.events
        /\ pc' = QuestionMark(o.ok, IF Cur.hasWait THEN "wait" ELSE "loop")
        /\ IF o.ok /\ ~Cur.hasWait
           THEN Advance
           ELSE UNCHANGED <<completed, stepIndex, charIndex>>
    /\ UNCHANGED <<bufVars, libVars, capVars, serVars, sessVars, gifVars,
                   recVars, gridVars,
                   owner, interactive, script, result, child, dropLog, gif_generator,
                   recordings>>

\* StepType::Command arm: if let Some(duration) = wait { sleep(duration).await }
StepCommandWait ==
    /\ pc = "wait" /\ owner \in LoopOwners
    /\ trace' = Append(trace, SleepEv(StepNo, Cur.dur))
    /\ pc' = "loop"
    /\ Advance
    /\ UNCHANGED <<bufVars, libVars, capVars, serVars, sessVars, gifVars,
                   recVars, gridVars,
                   owner, interactive, script, result, child, dropLog, gif_generator,
                   recordings>>

\* StepType::Type arm: terminal.type_text(text, speed).await? -- entering the for loop
StepType_ ==
    /\ pc = "step" /\ owner \in LoopOwners /\ Cur.type = "type"
    /\ IF Len(Cur.text) = 0
       THEN pc' = "loop" /\ Advance
       ELSE pc' = "type" /\ UNCHANGED <<completed, stepIndex, charIndex>>
    /\ UNCHANGED <<bufVars, libVars, capVars, serVars, sessVars, gifVars,
                   recVars, gridVars,
                   owner, interactive, script, trace, result, child, dropLog,
                   gif_generator, recordings>>

\* Terminal::type_text: self.send_input(&ch.to_string()).await?
TypeSend ==
    /\ pc = "type"
    /\ \E o \in send_input(StepNo, TypeChar(Cur.text, charIndex)) :
        /\ trace' = trace \o o.events
        /\ pc' = QuestionMark(o.ok, "type_sleep")
    /\ UNCHANGED <<bufVars, libVars, capVars, serVars, sessVars, gifVars,
                   recVars, gridVars,
                   owner, interactive, script, stepIndex, charIndex, completed, result,
                   child, dropLog, gif_generator, recordings>>

\* Terminal::type_text: tokio::time::sleep(delay_per_char).await, then the next char
TypeSleep ==
    /\ pc = "type_sleep"
    /\ trace' = Append(trace, SleepEv(StepNo, Cur.dur))
    /\ IF charIndex < Len(Cur.text)
       THEN /\ charIndex' = charIndex + 1
            /\ pc' = "type"
            /\ UNCHANGED <<completed, stepIndex>>
       ELSE pc' = "loop" /\ Advance
    /\ UNCHANGED <<bufVars, libVars, capVars, serVars, sessVars, gifVars,
                   recVars, gridVars,
                   owner, interactive, script, result, child, dropLog, gif_generator,
                   recordings>>

\* StepType::Screenshot arm of record_command and Kla::execute_script:
\* recorder.take_screenshot(&terminal, &path).await?; in execute_script,
\* screenshots.push(path)
StepScreenshot ==
    /\ pc = "step" /\ owner \in {"record"} \cup ExecOwners /\ Cur.type = "screenshot"
    /\ \E ok \in BOOLEAN :
        /\ trace' = Append(trace, RenderEv(StepNo, PngPath(Cur.name), ok))
        /\ pc' = QuestionMark(ok, "loop")
        /\ IF ok THEN Advance ELSE UNCHANGED <<completed, stepIndex, charIndex>>
        /\ screenshots' = IF ok /\ owner \in ExecOwners
                          THEN Append(screenshots, PngPath(Cur.name))
                          ELSE screenshots
    /\ UNCHANGED <<bufVars, capVars, serVars, sessVars, gifVars, recVars, gridVars,
                   owner, interactive, script, result, child, dropLog, gif_generator,
                   recordings>>

\* StepType::RecordGif arm of record_command: recorder.start_gif_recording(&terminal).await?
StepGifStart ==
    /\ pc = "step" /\ owner = "record" /\ Cur.type = "record_gif"
    /\ \E ok \in BOOLEAN :
        /\ trace' = Append(trace, StartEv(StepNo, ok))
        /\ gif_generator' = StartGenerator(gif_generator, ok)
        /\ frames' = StartFrames(frames, ok)
        /\ pc' = QuestionMark(ok, "gif_sleep")
    /\ UNCHANGED <<bufVars, libVars, capVars, serVars, sessVars, gifVars,
                   gridVars, encodes, confirms, callLog, owner, interactive, script,
                   stepIndex, charIndex, completed, result, child, dropLog, recordings>>

\* StepType::RecordGif arm of record_command: tokio::time::sleep(duration).await
StepGifSleep ==
    /\ pc = "gif_sleep"
    /\ trace' = Append(trace, SleepEv(StepNo, Cur.dur))
    /\ pc' = "gif_stop"
    /\ UNCHANGED <<bufVars, libVars, capVars, serVars, sessVars, gifVars,
                   recVars, gridVars,
                   owner, interactive, script, stepIndex, charIndex, completed, result,
                   child, dropLog, gif_generator, recordings>>

\* StepType::RecordGif arm of record_command: recorder.stop_gif_recording(&gif_path).await?
\* (GifGenerator::save returns Ok(()) on every path)
StepGifStop ==
    /\ pc = "gif_stop"
    /\ trace' = Append(trace, StopEv(StepNo, GifPath(Cur.name), TRUE))
    /\ gif_generator' = TakeGenerator(gif_generator)
    /\ encodes' = IF StopActive(gif_generator)
                  THEN Append(encodes, EncodeRequest(GifPath(Cur.name), frames, StepNo))
                  ELSE encodes
    /\ frames' = 0
    /\ pc' = QuestionMark(TRUE, "loop")
    /\ Advance
    /\ UNCHANGED <<bufVars, libVars, capVars, serVars, sessVars, gifVars,
                   gridVars, confirms, callLog, owner, interactive, script, result,
                   child, dropLog, recordings>>

\* StepType::RecordGif arm of Kla::execute_script: recordings.push(path)
ExecRecordGif ==
    /\ pc = "step" /\ owner \in ExecOwners /\ Cur.type = "record_gif"
    /\ recordings' = Append(recordings, GifPath(Cur.name))
    /\ pc' = "loop"
    /\ Advance
    /\ UNCHANGED <<bufVars, libVars, capVars, serVars, sessVars, gifVars,
                   recVars, gridVars,
                   owner, interactive, script, trace, result, child, dropLog,
                   gif_generator>>

\* demo_command: `_ => {}` -- Screenshot and RecordGif steps are skipped
DemoSkip ==
    /\ pc = "step" /\ owner = "demo" /\ Cur.type \in {"screenshot", "record_gif"}
    /\ pc' = "loop"
    /\ Advance
    /\ UNCHANGED <<bufVars, libVars, capVars, serVars, sessVars, gifVars,
                   recVars, gridVars,
                   owner, interactive, script, trace, result, child, dropLog,
                   gif_generator, recordings>>

\* screenshot_command: terminal.execute_command(&command).await?
ShotCommand ==
    /\ pc = "command" /\ owner = "screenshot"
    /\ \E o \in send_input(StepNo, CommandInput(Cur.text)) :
        /\ trace' = trace \o o.events
        /\ pc' = QuestionMark(o.ok, "recorder")
    /\ UNCHANGED <<bufVars, libVars, capVars, serVars, sessVars, gifVars,
                   recVars, gridVars,
                   owner, interactive, script, stepIndex, charIndex, completed, result,
                   child, dropLog, gif_generator, recordings>>

\* screenshot_command: recorder.take_screenshot(&terminal, &output).await?
ShotTake ==
    /\ pc = "screenshot" /\ owner = "screenshot"
    /\ \E ok \in BOOLEAN :
        /\ trace' = Append(trace, RenderEv(StepNo, PngPath("output"), ok))
        /\ pc' = QuestionMark(ok, "ret_ok")
    /\ UNCHANGED <<bufVars, libVars, capVars, serVars, sessVars, gifVars,
                   recVars, gridVars,
                   owner, interactive, script, stepIndex, charIndex, completed, result,
                   child, dropLog, gif_generator, recordings>>

\* the shell exits by itself while the session is alive
ChildExits ==
    /\ child = "running" /\ pc \notin {"new", "returned"}
    /\ child' = "exited"
    /\ UNCHANGED <<bufVars, libVars, capVars, serVars, sessVars, gifVars,
                   recVars, gridVars,
                   owner, interactive, script, pc, stepIndex, charIndex, trace,
                   completed, result, dropLog, gif_generator, recordings>>

\* the owning function returns (Ok(..) at its end, or Err through `?`): its locals go
\* out of scope, and a Terminal that was created is dropped. Kla::screenshot returns
\* after the execute_script it called has returned and dropped its Terminal.
FnReturn ==
    /\ pc \in {"ret_ok", "ret_err"}
    /\ result' = IF pc = "ret_ok" THEN ReturnValue(owner, screenshots) ELSE "err"
    /\ IF session
       THEN /\ dropLog' = dropLog \o TerminalDrop
            /\ child' = ChildAfterAll(child, TerminalDrop)
       ELSE UNCHANGED <<dropLog, child>>
    /\ gif_generator' = "None"
    /\ frames' = 0
    /\ pc' = "returned"
    /\ UNCHANGED <<bufVars, libVars, capVars, serVars, sessVars, gifVars,
                   gridVars, encodes, confirms, callLog, owner, interactive, script,
                   stepIndex, charIndex, trace, completed, recordings>>

Next ==
    \/ TerminalNew \/ MediaRecorderNew \/ LoopHead
    \/ StepCommand \/ StepCommandWait
    \/ StepType_ \/ TypeSend \/ TypeSleep
    \/ StepScreenshot
    \/ StepGifStart \/ StepGifSleep \/ StepGifStop
    \/ ExecRecordGif \/ DemoSkip
    \/ ShotCommand \/ ShotTake
    \/ ChildExits \/ FnReturn

Spec == Init /\ [][Next]_vars

(***************************************************************************)
(* Part 2: the capture thread and the shared buffer (pty/mod.rs)           *)
(***************************************************************************)
\* let mut buf = [0u8; 1024]
ReadBufSize == 1024
\* tokio::time::sleep(Duration::from_millis(100)) in wait_for_output
PollIntervalMs == 100

TickMs == PollIntervalMs \div TicksPerPoll
Timeouts == {k * TickMs : k \in 0..MaxTimeoutTicks}
\* the `pattern` of wait_for_output: empty, one character, two characters that the
\* shell may print in separate chunks, and one it never prints
Patterns == {<<>>, <<"a">>, <<"a", "b">>, <<"z">>}

Min(a, b) == IF a <= b THEN a ELSE b

\* what the shell prints: ASCII characters and one two-byte character
OutChars == {"a", "b", "e'"}
Replacement == "U+FFFD"
Utf8(c) ==
    IF c = "e'" THEN <<"C3", "A9">>
    ELSE IF c = Replacement THEN <<"EF", "BF", "BD">>
    ELSE <<c>>

\* String::from_utf8_lossy(&buf[..n]): well-formed sequences decode to their
\* character, every other byte becomes U+FFFD
RECURSIVE from_utf8_lossy(_)
from_utf8_lossy(bs) ==
    IF bs = <<>> THEN <<>>
    ELSE IF Head(bs) = "C3"
         THEN IF Len(bs) >= 2 /\ bs[2] = "A9"
              THEN <<"e'">> \o from_utf8_lossy(Tail(Tail(bs)))
              ELSE <<Replacement>> \o from_utf8_lossy(Tail(bs))
    ELSE IF Head(bs) = "A9"
         THEN <<Replacement>> \o from_utf8_lossy(Tail(bs))
    ELSE <<Head(bs)>> \o from_utf8_lossy(Tail(bs))

\* (mutation) the buffer is replaced by the new text
push_str_overwriting(b, text) == text

\* buffer.push_str(&text)
push_str(b, text) == b \o text

\* (mutation) clear_buffer leaves the text in place
clear_keeping(b) == b

\* buffer.clear()
clear(b) == <<>>

\* (mutation) after the end of the stream the loop goes on to its sleep
ReadEndContinue == "sleep"

\* Ok(0) => break, Err(_) => break: the thread function returns
ReadEnd == "exited"

\* (mutation) the capture loop is a task that runs only while the owner runs
CaptureRunsCooperative(i) == i # "suspended"

\* std::thread::spawn: the capture loop has a thread of its own, which is scheduled
\* whatever the owner's task is doing
CaptureRuns(i) == TRUE

\* (mutation) the guard outlives the block
MutexGuardKept(holder) == holder

\* a MutexGuard going out of scope
MutexGuardDropped(holder) == "free"

\* str::contains(pattern)
Contains(s, p) ==
    \E i \in 0..(Len(s) - Len(p)) : SubSeq(s, i + 1, i + Len(p)) = p

\* (mutation) the loop never looks at the clock
LoopCondForever(e, t) == TRUE

\* while start.elapsed() < timeout_duration
LoopCond(e, t) == e < t

\* (mutation) a timeout is reported as an error
TimeoutResultErr == "Err(Timeout)"

\* the `Ok(false)` after the loop
TimeoutResult == "Ok(false)"

Waiting == wpc \in {"test", "poll", "sleep"}

\* The clock of one wait_for_output call is kept up to timeout + one poll interval:
\* at every later time the loop condition is false, so the call is past its last
\* poll, and the times are not told apart.
Saturated(ms, timeout) == Min(ms, timeout + PollIntervalMs)

\* a caller that holds a TerminalController and uses its API directly
ScriptIdle ==
    /\ owner = "library"
    /\ interactive = FALSE
    /\ script = <<>>
    /\ pc = "session"
    /\ stepIndex = 0
    /\ charIndex = 1
    /\ trace = <<>>
    /\ completed = <<>>
    /\ result = "none"
    /\ child = "running"
    /\ dropLog = <<>>
    /\ gif_generator = "None"
    /\ recordings = <<>>
    /\ session = TRUE
    /\ readers = 1

BufInit == ScriptIdle /\ BufIdle /\ RecIdle /\ GridIdle /\ LibIdle /\ CapIdle /\ SerIdle /\ GifIdle

\* the shell prints one character
ShellEmit ==
    /\ ptyOpen
    /\ \E c \in OutChars :
        /\ emitted + Len(Utf8(c)) <= MaxOut
        /\ ptyAvail' = ptyAvail \o Utf8(c)
        /\ emitted' = emitted + Len(Utf8(c))
    /\ UNCHANGED <<scriptVars, libVars, capVars, serVars, sessVars, gifVars,
                   recVars, gridVars,
                   ptyOpen, cpc, chunk, bufLock, buffer, snaps, epoch, wpc,
                   wpattern, wtimeout, elapsed, wakeAt, polls, wresult,
                   appeared>>

\* the shell exits: after the pending bytes, reads report end-of-stream or an error
PtyClose ==
    /\ ptyOpen
    /\ ptyOpen' = FALSE
    /\ UNCHANGED <<scriptVars, libVars, capVars, serVars, sessVars, gifVars,
                   recVars, gridVars,
                   ptyAvail, emitted, cpc, chunk, bufLock, buffer, snaps,
                   epoch, wpc, wpattern, wtimeout, elapsed, wakeAt, polls,
                   wresult, appeared>>

\* reader_clone.lock() then reader.read(&mut buf) returning Ok(n), n > 0: it blocks
\* until bytes are available and returns at most buf.len() of them
CaptureRead ==
    /\ cpc = "read" /\ ptyAvail # <<>> /\ CaptureRuns(ipc)
    /\ \E n \in 1..Min(Len(ptyAvail), ReadBufSize) :
        /\ chunk' = SubSeq(ptyAvail, 1, n)
        /\ ptyAvail' = SubSeq(ptyAvail, n + 1, Len(ptyAvail))
        /\ readBytes' = readBytes \o SubSeq(ptyAvail, 1, n)
    /\ cpc' = "lock_buffer"
    /\ UNCHANGED <<scriptVars, libVars, serVars, sessVars, gifVars,
                   appended, ipc, suspensions, seenAtSuspend,
                   recVars, gridVars,
                   emitted, ptyOpen, bufLock, buffer, snaps, epoch, wpc,
                   wpattern, wtimeout, elapsed, wakeAt, polls, wresult,
                   appeared>>

\* reader.read(&mut buf) returning Ok(0) or Err(_): break
CaptureEnd ==
    /\ cpc = "read" /\ ptyAvail = <<>> /\ ~ptyOpen /\ CaptureRuns(ipc)
    /\ cpc' = ReadEnd
    /\ UNCHANGED <<scriptVars, libVars, capVars, serVars, sessVars, gifVars,
                   recVars, gridVars,
                   ptyAvail, emitted, ptyOpen, chunk, bufLock, buffer, snaps,
                   epoch, wpc, wpattern, wtimeout, elapsed, wakeAt, polls,
                   wresult, appeared>>

\* if let Ok(mut buffer) = buffer_clone.lock()
CaptureLock ==
    /\ cpc = "lock_buffer" /\ bufLock = "free" /\ CaptureRuns(ipc)
    /\ bufLock' = "capture"
    /\ cpc' = "push"
    /\ UNCHANGED <<scriptVars, libVars, capVars, serVars, sessVars, gifVars,
                   recVars, gridVars,
                   ptyAvail, emitted, ptyOpen, chunk, buffer, snaps, epoch,
                   wpc, wpattern, wtimeout, elapsed, wakeAt, polls, wresult,
                   appeared>>

\* buffer.push_str(&text); the guard is dropped at the end of the block
CapturePush ==
    /\ cpc = "push" /\ CaptureRuns(ipc)
    /\ buffer' = push_str(buffer, from_utf8_lossy(chunk))
    /\ appended' = appended \o from_utf8_lossy(chunk)
    /\ bufLock' = MutexGuardDropped(bufLock)
    /\ cpc' = "sleep"
    /\ appeared' = (appeared \/ (Waiting /\ elapsed < wtimeout
                                   /\ Contains(buffer', wpattern)))
    /\ UNCHANGED <<scriptVars, libVars, serVars, sessVars, gifVars,
                   readBytes, ipc, suspensions, seenAtSuspend,
                   recVars, gridVars,
                   ptyAvail, emitted, ptyOpen, chunk, snaps, epoch, wpc,
                   wpattern, wtimeout, elapsed, wakeAt, polls, wresult>>

\* std::thread::sleep(Duration::from_millis(10)), then the next iteration
CaptureSleep ==
    /\ cpc = "sleep" /\ CaptureRuns(ipc)
    /\ cpc' = "read"
    /\ UNCHANGED <<scriptVars, libVars, capVars, serVars, sessVars, gifVars,
                   recVars, gridVars,
                   ptyAvail, emitted, ptyOpen, chunk, bufLock, buffer, snaps,
                   epoch, wpc, wpattern, wtimeout, elapsed, wakeAt, polls,
                   wresult, appeared>>

\* Terminal::get_output called by the owner: lock, clone, unlock
GetOutput ==
    /\ bufLock = "free" /\ Len(snaps) < MaxSnaps
    /\ snaps' = Append(snaps, [val |-> buffer, epoch |-> epoch])
    /\ UNCHANGED <<scriptVars, libVars, capVars, serVars, sessVars, gifVars,
                   recVars, gridVars,
                   ptyAvail, emitted, ptyOpen, cpc, chunk, bufLock, buffer,
                   epoch, wpc, wpattern, wtimeout, elapsed, wakeAt, polls,
                   wresult, appeared>>

\* Terminal::clear_buffer: lock, buffer.clear(), unlock
ClearBuffer ==
    /\ bufLock = "free" /\ epoch < MaxClears
    /\ buffer' = clear(buffer)
    /\ appended' = <<>>
    /\ epoch' = epoch + 1
    /\ UNCHANGED <<scriptVars, libVars, serVars, sessVars, gifVars,
                   readBytes, ipc, suspensions, seenAtSuspend,
                   recVars, gridVars,
                   ptyAvail, emitted, ptyOpen, cpc, chunk, bufLock, snaps,
                   wpc, wpattern, wtimeout, elapsed, wakeAt, polls, wresult,
                   appeared>>

\* Terminal::wait_for_output(pattern, timeout_duration): let start = Instant::now()
WaitCall ==
    /\ wpc = "idle"
    /\ \E p \in Patterns, t \in Timeouts :
        /\ wpattern' = p
        /\ wtimeout' = t
        /\ appeared' = Contains(buffer, p)
    /\ wpc' = "test"
    /\ elapsed' = 0
    /\ UNCHANGED <<scriptVars, libVars, capVars, serVars, sessVars, gifVars,
                   recVars, gridVars,
                   ptyAvail, emitted, ptyOpen, cpc, chunk, bufLock, buffer,
                   snaps, epoch, wakeAt, polls, wresult>>

\* while start.elapsed() < timeout_duration { .. }  Ok(false)
WaitTest ==
    /\ wpc = "test"
    /\ IF LoopCond(elapsed, wtimeout)
       THEN wpc' = "poll" /\ UNCHANGED wresult
       ELSE wpc' = "done" /\ wresult' = TimeoutResult
    /\ UNCHANGED <<scriptVars, libVars, capVars, serVars, sessVars, gifVars,
                   recVars, gridVars,
                   ptyAvail, emitted, ptyOpen, cpc, chunk, bufLock, buffer,
                   snaps, epoch, wpattern, wtimeout, elapsed, wakeAt, polls,
                   appeared>>

\* let output = self.get_output(); if output.contains(pattern) { return Ok(true); }
\* otherwise tokio::time::sleep(Duration::from_millis(100)) starts
WaitPoll ==
    /\ wpc = "poll" /\ bufLock = "free"
    /\ polls' = polls + 1
    /\ IF Contains(buffer, wpattern)
       THEN wpc' = "done" /\ wresult' = "Ok(true)" /\ UNCHANGED wakeAt
       ELSE /\ wpc' = "sleep"
            /\ wakeAt' = Saturated(elapsed + PollIntervalMs, wtimeout)
            /\ UNCHANGED wresult
    /\ UNCHANGED <<scriptVars, libVars, capVars, serVars, sessVars, gifVars,
                   recVars, gridVars,
                   ptyAvail, emitted, ptyOpen, cpc, chunk, bufLock, buffer,
                   snaps, epoch, wpattern, wtimeout, elapsed, appeared>>

\* the sleep is over: back to the loop condition
WaitWake ==
    /\ wpc = "sleep" /\ elapsed >= wakeAt
    /\ wpc' = "test"
    /\ UNCHANGED <<scriptVars, libVars, capVars, serVars, sessVars, gifVars,
                   recVars, gridVars,
                   ptyAvail, emitted, ptyOpen, cpc, chunk, bufLock, buffer,
                   snaps, epoch, wpattern, wtimeout, elapsed, wakeAt, polls,
                   wresult, appeared>>

\* time passes during the call
Tick ==
    /\ Waiting /\ elapsed < Saturated(elapsed + TickMs, wtimeout)
    /\ elapsed' = Saturated(elapsed + TickMs, wtimeout)
    /\ UNCHANGED <<scriptVars, libVars, capVars, serVars, sessVars, gifVars,
                   recVars, gridVars,
                   ptyAvail, emitted, ptyOpen, cpc, chunk, bufLock, buffer,
                   snaps, epoch, wpc, wpattern, wtimeout, wakeAt, polls,
                   wresult, appeared>>

\* SpecBuf: the owner takes snapshots and clears the buffer while the capture
\* thread runs
BufNext ==
    \/ ShellEmit \/ PtyClose
    \/ CaptureRead \/ CaptureEnd \/ CaptureLock \/ CapturePush \/ CaptureSleep
    \/ GetOutput \/ ClearBuffer

SpecBuf == BufInit /\ [][BufNext]_vars

\* SpecWait: the owner makes one wait_for_output call while the capture thread runs
WaitNext ==
    \/ ShellEmit \/ PtyClose
    \/ CaptureRead \/ CaptureEnd \/ CaptureLock \/ CapturePush \/ CaptureSleep
    \/ WaitCall \/ WaitTest \/ WaitPoll \/ WaitWake \/ Tick

SpecWait == BufInit /\ [][WaitNext]_vars

\* the runtime runs a ready task and fires due timers, the clock advances, and a
\* thread holding the buffer mutex gets to release it
FairSpecWait ==
    /\ SpecWait
    /\ WF_vars(WaitTest) /\ WF_vars(WaitPoll) /\ WF_vars(WaitWake)
    /\ WF_vars(Tick) /\ WF_vars(CapturePush)

\* the owner's task is suspended: tokio::time::sleep(..).await of Command.wait,
\* Type.speed, the RecordGif duration, or a poll of wait_for_output
OwnerSuspend ==
    /\ ipc = "run" /\ suspensions < MaxSuspensions
    /\ ipc' = "suspended"
    /\ suspensions' = suspensions + 1
    /\ seenAtSuspend' = Len(buffer)
    /\ UNCHANGED <<scriptVars, bufVars, recVars, gridVars, libVars, serVars, sessVars, gifVars,
                   readBytes, appended>>

\* the sleep is over
OwnerResume ==
    /\ ipc = "suspended"
    /\ ipc' = "run"
    /\ seenAtSuspend' = 0
    /\ UNCHANGED <<scriptVars, bufVars, recVars, gridVars, libVars, serVars, sessVars, gifVars,
                   readBytes, appended, suspensions>>

\* Terminal::get_output is called: self.buffer.lock() begins
OwnerCall ==
    /\ ipc = "run" /\ Len(snaps) < MaxSnaps
    /\ ipc' = "lock_buffer"
    /\ UNCHANGED <<scriptVars, bufVars, recVars, gridVars, libVars, serVars, sessVars, gifVars,
                   readBytes, appended, suspensions, seenAtSuspend>>

\* self.buffer.lock() returns the guard
OwnerLock ==
    /\ ipc = "lock_buffer" /\ bufLock = "free"
    /\ bufLock' = "owner"
    /\ ipc' = "copy"
    /\ UNCHANGED <<scriptVars, recVars, gridVars, libVars, serVars, sessVars, gifVars,
                   readBytes, appended, suspensions, seenAtSuspend,
                   ptyAvail, emitted, ptyOpen, cpc, chunk, buffer, snaps, epoch,
                   wpc, wpattern, wtimeout, elapsed, wakeAt, polls, wresult,
                   appeared>>

\* .map(|buffer| buffer.clone()): the copy is returned and the guard dropped
OwnerCopy ==
    /\ ipc = "copy"
    /\ snaps' = Append(snaps, [val |-> buffer, epoch |-> epoch])
    /\ bufLock' = MutexGuardDropped(bufLock)
    /\ ipc' = "run"
    /\ UNCHANGED <<scriptVars, recVars, gridVars, libVars, serVars, sessVars, gifVars,
                   readBytes, appended, suspensions, seenAtSuspend,
                   ptyAvail, emitted, ptyOpen, cpc, chunk, buffer, epoch,
                   wpc, wpattern, wtimeout, elapsed, wakeAt, polls, wresult,
                   appeared>>

\* SpecOwner: the owner's task is suspended and resumed, and takes snapshots step by
\* step, while the capture thread runs
OwnerNext ==
    \/ ShellEmit \/ PtyClose
    \/ CaptureRead \/ CaptureEnd \/ CaptureLock \/ CapturePush \/ CaptureSleep
    \/ OwnerSuspend \/ OwnerResume
    \/ OwnerCall \/ OwnerLock \/ OwnerCopy

SpecOwner == BufInit /\ [][OwnerNext]_vars

\* the capture thread is scheduled, a thread waiting for the mutex gets it when it is
\* free again and again, and a thread holding it gets to release it; nothing is
\* assumed about the owner's task being resumed
FairSpecOwner ==
    /\ SpecOwner
    /\ WF_vars(CaptureRead) /\ WF_vars(CaptureEnd) /\ SF_vars(CaptureLock)
    /\ WF_vars(CapturePush) /\ WF_vars(CaptureSleep)
    /\ SF_vars(OwnerLock) /\ WF_vars(OwnerCopy)

(***************************************************************************)
(* Part 3: a MediaRecorder driven through its API (media/recorder.rs)      *)
(***************************************************************************)
RecInit == ScriptIdle /\ BufIdle /\ RecIdle /\ GridIdle /\ LibIdle /\ CapIdle /\ SerIdle /\ GifIdle

\* one entry of the call log: the recorder before and after the call, and what the call did
Call(op, ok, rendered) ==
    [op |-> op, ok |-> ok, rendered |-> rendered,
     activeBefore |-> gif_generator = "Some", activeAfter |-> gif_generator' = "Some",
     framesBefore |-> frames, framesAfter |-> frames',
     encodesBefore |-> Len(encodes), encodesAfter |-> Len(encodes')]

\* MediaRecorder::start_gif_recording
RecStart ==
    /\ Len(callLog) < MaxCalls
    /\ encodes' = encodes
    /\ \E ok \in BOOLEAN :
        /\ gif_generator' = StartGenerator(gif_generator, ok)
        /\ frames' = StartFrames(frames, ok)
        /\ callLog' = Append(callLog, Call("start", ok, FALSE))
    /\ UNCHANGED <<bufVars, libVars, capVars, serVars, sessVars, gifVars,
                   gridVars, confirms, owner, interactive, script, pc, stepIndex,
                   charIndex, trace, completed, result, child, dropLog, recordings>>

\* MediaRecorder::capture_gif_frame
RecCapture ==
    /\ Len(callLog) < MaxCalls
    /\ gif_generator' = gif_generator
    /\ encodes' = encodes
    /\ IF CaptureActive(gif_generator)
       THEN \E o \in AddFrameOutcomes :
               /\ frames' = IF o = "ok" THEN frames + 1 ELSE frames
               /\ callLog' = Append(callLog, Call("capture", o = "ok", o # "render_err"))
       ELSE /\ frames' = frames
            /\ callLog' = Append(callLog, Call("capture", TRUE, FALSE))
    /\ UNCHANGED <<bufVars, libVars, capVars, serVars, sessVars, gifVars,
                   gridVars, confirms, owner, interactive, script, pc, stepIndex,
                   charIndex, trace, completed, result, child, dropLog, recordings>>

\* MediaRecorder::stop_gif_recording(output_path)
RecStop ==
    /\ Len(callLog) < MaxCalls
    /\ \E n \in Names :
        encodes' = IF StopActive(gif_generator)
                   THEN Append(encodes, EncodeRequest(GifPath(n), frames, 0))
                   ELSE encodes
    /\ gif_generator' = TakeGenerator(gif_generator)
    /\ frames' = IF StopActive(gif_generator) THEN 0 ELSE frames
    /\ callLog' = Append(callLog, Call("stop", TRUE, FALSE))
    /\ UNCHANGED <<bufVars, libVars, capVars, serVars, sessVars, gifVars,
                   gridVars, confirms, owner, interactive, script, pc, stepIndex,
                   charIndex, trace, completed, result, child, dropLog, recordings>>

RecNext == RecStart \/ RecCapture \/ RecStop

SpecRec == RecInit /\ [][RecNext]_vars

(***************************************************************************)
(* Part 4: the terminal state model (terminal.rs)                          *)
(***************************************************************************)
\* widths and heights: of a new TerminalState, and asked of resize
InitDims == 1..2
Dims == 0..2
\* what set_char writes: two ASCII letters, a two-byte character, a bold blank
GridCells == {TerminalChar("a", FALSE), TerminalChar("b", FALSE),
              TerminalChar("e'", FALSE), TerminalChar(" ", TRUE)}
\* the `text` of find_text: a letter, the two-byte character, a letter after the
\* two-byte character, a text that runs over the end of a row, and the empty text
Needles == {<<"a">>, <<"e'">>, <<"e'", "a">>, <<"a", "\n", "b">>, <<>>}

\* the number of values of a u16
U16 == 65536
\* u16 subtraction without overflow checks
WrappingSub(a, b) == (a - b + U16) % U16

\* (mutation) a new cell is not blank
DefaultFillLetter == TerminalChar("a", FALSE)

\* the value new cells are filled with: TerminalChar::default()
DefaultFill == DefaultChar

\* vec![vec![TerminalChar::default(); width]; height]
BlankGrid(sz) == [y \in 1..sz.height |-> [x \in 1..sz.width |-> DefaultFill]]

\* TerminalState::get_char(x, y) is Some
HasChar(sz, buf, x, y) ==
    /\ x < sz.width /\ y < sz.height
    /\ (y + 1) \in DOMAIN buf
    /\ (x + 1) \in DOMAIN buf[y + 1]

\* (mutation) nothing is copied into the new buffer
ResizedGridCleared(sz, buf, new) == BlankGrid(new)

\* TerminalState::resize: new_buffer after the copy loops
ResizedGrid(sz, buf, new) ==
    LET copy_height == Min(sz.height, new.height)
        copy_width == Min(sz.width, new.width)
    IN  [y \in 1..new.height |->
            [x \in 1..new.width |->
                IF y <= copy_height /\ x <= copy_width /\ HasChar(sz, buf, x - 1, y - 1)
                THEN buf[y][x]
                ELSE BlankGrid(new)[y][x]]]

\* TerminalState::resize: if self.cursor.x >= new_size.width { .. = new_size.width - 1 }
\* (likewise y), where the subtraction wraps
Clamp(c, bound) == IF c >= bound THEN WrappingSub(bound, 1) ELSE c
\* new_size.width - 1 overflows
ClampOverflows(c, bound) == c >= bound /\ bound = 0

\* row.iter().map(|cell| cell.ch)
RowChars(row) == [x \in 1..Len(row) |-> row[x].ch]

\* str::trim_end
RECURSIVE trim_end(_)
trim_end(cs) ==
    IF cs # <<>> /\ cs[Len(cs)] = " " THEN trim_end(SubSeq(cs, 1, Len(cs) - 1)) ELSE cs

\* the bytes of a String holding the characters cs
RECURSIVE Encode(_)
Encode(cs) == IF cs = <<>> THEN <<>> ELSE Utf8(Head(cs)) \o Encode(Tail(cs))

\* [..].join("\n")
RECURSIVE Join(_)
Join(rows) ==
    IF rows = <<>> THEN <<>>
    ELSE IF Len(rows) = 1 THEN rows[1]
    ELSE rows[1] \o <<"\n">> \o Join(Tail(rows))

\* TerminalState::get_text, as the bytes of the String
get_text(buf) == Join([y \in 1..Len(buf) |-> Encode(trim_end(RowChars(buf[y])))])

\* str::find: the byte index of the first match, -1 for None
str_find(s, p) ==
    IF Contains(s, p)
    THEN CHOOSE i \in 0..(Len(s) - Len(p)) :
            /\ SubSeq(s, i + 1, i + Len(p)) = p
            /\ \A j \in 0..(i - 1) : SubSeq(s, j + 1, j + Len(p)) # p
    ELSE -1

\* the pieces of s between line feeds
RECURSIVE Split(_)
Split(s) ==
    IF \E k \in 1..Len(s) : s[k] = "\n"
    THEN LET k == CHOOSE k \in 1..Len(s) : s[k] = "\n" /\ \A j \in 1..(k - 1) : s[j] # "\n"
         IN  <<SubSeq(s, 1, k - 1)>> \o Split(SubSeq(s, k + 1, Len(s)))
    ELSE <<s>>

\* str::lines: an empty last line is not a line
lines(s) ==
    LET parts == Split(s)
    IN  IF parts[Len(parts)] = <<>> THEN SubSeq(parts, 1, Len(parts) - 1) ELSE parts

\* TerminalState::find_text: the for loop over lines.iter().enumerate()
RECURSIVE FindLine(_, _, _, _)
FindLine(ls, line_idx, char_count, pos) ==
    IF line_idx >= Len(ls) THEN None
    ELSE IF char_count + Len(ls[line_idx + 1]) >= pos
         THEN Some(pos - char_count, line_idx)
    ELSE FindLine(ls, line_idx + 1, char_count + Len(ls[line_idx + 1]) + 1, pos)

\* TerminalState::find_text
find_text(buf, text) ==
    LET content == get_text(buf)
        pos == str_find(content, Encode(text))
    IN  IF pos = -1 THEN None ELSE FindLine(lines(content), 0, 0, pos)

\* TerminalState::contains_text
contains_text(buf, text) == Contains(get_text(buf), Encode(text))

Current == State(size, cursor, grid, title, cursor_visible)

\* TerminalState::new(size), and a cursor somewhere in the grid
GridInit ==
    /\ ScriptIdle /\ BufIdle /\ RecIdle /\ LibIdle /\ CapIdle /\ SerIdle /\ GifIdle
    /\ size \in {TerminalSize(w, h) : w \in InitDims, h \in InitDims}
    /\ cursor \in {CursorPosition(x, y) : x \in 0..(size.width - 1), y \in 0..(size.height - 1)}
    /\ grid = BlankGrid(size)
    /\ title = ""
    /\ cursor_visible = TRUE
    /\ panicked = FALSE
    /\ sets = 0
    /\ new_size = size
    /\ resizeRun = 0
    /\ prev = Current
    /\ prev2 = Current
    /\ needle = <<>>
    /\ found = None
    /\ lastSet = None
    /\ contained = "none"

\* (mutation) set_char writing the character into every cell of row y
set_char_row(sz, buf, x, y, ch) ==
    IF HasChar(sz, buf, x, y)
    THEN [buf EXCEPT ![y + 1] = [i \in 1..sz.width |-> ch]]
    ELSE buf
\* TerminalState::set_char: the cell is written when (x, y) is inside the size
set_char(sz, buf, x, y, ch) ==
    IF HasChar(sz, buf, x, y)
    THEN [buf EXCEPT ![y + 1][x + 1] = ch]
    ELSE buf

\* TerminalState::set_char(x, y, ch); the history of resizes starts afresh
SetChar ==
    /\ ~panicked /\ sets < MaxSets
    /\ \E x \in Dims, y \in Dims, ch \in GridCells :
        /\ grid' = set_char(size, grid, x, y, ch)
        /\ lastSet' = [some |-> TRUE, x |-> x, y |-> y]
    /\ contained' = "none"
    /\ sets' = sets + 1
    /\ new_size' = size
    /\ resizeRun' = 0
    /\ prev' = State(size, cursor, grid', title, cursor_visible)
    /\ prev2' = prev'
    /\ needle' = <<>>
    /\ found' = None
    /\ UNCHANGED <<scriptVars, libVars, capVars, serVars, sessVars, gifVars,
                   bufVars, recVars, size, cursor, title, cursor_visible,
                   panicked>>

\* TerminalState::resize(new_size); with overflow checks the subtraction of the cursor
\* adjustment panics where it would wrap
Resize ==
    /\ ~panicked
    /\ \E w \in Dims, h \in Dims :
        \E checks \in (IF ClampOverflows(cursor.x, w) \/ ClampOverflows(cursor.y, h)
                        THEN BOOLEAN ELSE {FALSE}) :
        LET new == TerminalSize(w, h)
        IN  /\ new_size' = new
            /\ IF new = size
               THEN UNCHANGED <<size, grid, cursor, panicked>>
               ELSE /\ grid' = ResizedGrid(size, grid, new)
                    /\ size' = new
                    /\ IF checks /\ ClampOverflows(cursor.x, w)
                       THEN panicked' = TRUE /\ cursor' = cursor
                       ELSE IF checks /\ ClampOverflows(cursor.y, h)
                       THEN /\ panicked' = TRUE
                            /\ cursor' = CursorPosition(Clamp(cursor.x, w), cursor.y)
                       ELSE /\ panicked' = FALSE
                            /\ cursor' = CursorPosition(Clamp(cursor.x, w), Clamp(cursor.y, h))
    /\ prev' = Current
    /\ prev2' = prev
    /\ resizeRun' = Min(resizeRun + 1, 2)
    /\ needle' = <<>>
    /\ found' = None
    /\ lastSet' = None
    /\ contained' = "none"
    /\ UNCHANGED <<scriptVars, libVars, capVars, serVars, sessVars, gifVars,
                   bufVars, recVars, title, cursor_visible, sets>>

\* TerminalState::find_text(text) and TerminalState::contains_text(text) on the same state
FindText ==
    /\ ~panicked
    /\ \E t \in Needles :
        /\ needle' = t
        /\ found' = find_text(grid, t)
        /\ contained' = IF contains_text(grid, t) THEN "true" ELSE "false"
    /\ UNCHANGED lastSet
    /\ UNCHANGED <<scriptVars, libVars, capVars, serVars, sessVars, gifVars,
                   bufVars, recVars, size, cursor, grid, title, cursor_visible,
                   panicked, sets, new_size, resizeRun, prev, prev2>>

\* SpecGrid: a grid is filled and resized
GridNext == SetChar \/ Resize

SpecGrid == GridInit /\ [][GridNext]_vars

\* SpecFind: a grid is filled and searched
FindNext == SetChar \/ FindText

SpecFind == GridInit /\ [][FindNext]_vars

(***************************************************************************)
(* Part 5: script files (script/mod.rs, script/loader.rs)                  *)
(***************************************************************************)
\* std::time::Duration: whole seconds and the nanoseconds of the last second
Duration(secs, nanos) == [secs |-> secs, nanos |-> nanos]
\* Duration::from_millis(ms)
from_millis(ms) == Duration(ms \div 1000, (ms % 1000) * 1000000)
\* Duration::from_secs(secs)
from_secs(secs) == Duration(secs, 0)
\* Duration::from_micros(us)
from_micros(us) == Duration(us \div 1000000, (us % 1000000) * 1000)
\* Duration::as_millis(): the whole milliseconds
as_millis(d) == d.secs * 1000 + d.nanos \div 1000000
\* Duration::as_secs(): the whole seconds
as_secs(d) == d.secs

\* a text is a sequence of characters
DigitChars == <<"0", "1", "2", "3", "4", "5", "6", "7", "8", "9">>
IsDigit(c) == \E i \in 1..10 : DigitChars[i] = c
DigitValue(c) == (CHOOSE i \in 1..10 : DigitChars[i] = c) - 1

\* format!("{}", n) of an unsigned integer
RECURSIVE Decimal(_)
Decimal(n) ==
    IF n < 10 THEN <<DigitChars[n + 1]>>
    ELSE Decimal(n \div 10) \o <<DigitChars[(n % 10) + 1]>>

\* str::ends_with(pat)
ends_with(s, pat) ==
    Len(s) >= Len(pat) /\ SubSeq(s, Len(s) - Len(pat) + 1, Len(s)) = pat

\* str::trim_end_matches(pat): the suffix is removed as often as it matches
RECURSIVE trim_end_matches(_, _)
trim_end_matches(s, pat) ==
    IF pat # <<>> /\ ends_with(s, pat)
    THEN trim_end_matches(SubSeq(s, 1, Len(s) - Len(pat)), pat)
    ELSE s

\* the value of a text of digits
RECURSIVE DigitsValue(_)
DigitsValue(ds) ==
    IF ds = <<>> THEN 0
    ELSE DigitsValue(SubSeq(ds, 1, Len(ds) - 1)) * 10 + DigitValue(ds[Len(ds)])

ParseErr == [ok |-> FALSE, val |-> 0]
ParseOk(v) == [ok |-> TRUE, val |-> v]

\* str::parse::<u64>(): an optional '+', then one digit or more. (A value above
\* u64::MAX is an error too; no text of the lengths explored here reaches it.)
parse_u64(s) ==
    LET ds == IF s # <<>> /\ Head(s) = "+" THEN Tail(s) ELSE s
    IN IF ds # <<>> /\ \A i \in 1..Len(ds) : IsDigit(ds[i])
       THEN ParseOk(DigitsValue(ds))
       ELSE ParseErr

DurErr == [ok |-> FALSE, val |-> Duration(0, 0)]
DurOk(d) == [ok |-> TRUE, val |-> d]

\* fn parse_duration(s: &str) -> Result<Duration>
parse_duration(s) ==
    IF ends_with(s, <<"m", "s">>)
    THEN LET ms == parse_u64(trim_end_matches(s, <<"m", "s">>))
         IN IF ms.ok THEN DurOk(from_millis(ms.val)) ELSE DurErr
    ELSE IF ends_with(s, <<"s">>)
    THEN LET secs == parse_u64(trim_end_matches(s, <<"s">>))
         IN IF secs.ok THEN DurOk(from_secs(secs.val)) ELSE DurErr
    ELSE DurErr

\* duration_option::serialize and duration_ms::serialize:
\* format!("{}ms", duration.as_millis())
format_ms(d) == Decimal(as_millis(d)) \o <<"m", "s">>
\* duration_secs::serialize: format!("{}s", duration.as_secs())
format_secs(d) == Decimal(as_secs(d)) \o <<"s">>

\* the serialized form of one step: the step with its duration as a text
\* (`wait: null` when Command.wait is None)
SerializeStep(st) ==
    [type |-> st.type, text |-> st.text, hasWait |-> st.hasWait, name |-> st.name,
     dur |-> CASE st.type = "command" -> IF st.hasWait THEN format_ms(st.dur) ELSE <<>>
               [] st.type = "type" -> format_ms(st.dur)
               [] st.type = "record_gif" -> format_secs(st.dur)
               [] OTHER -> <<>>]

\* serde_yaml::to_string(&script)
Serialize(sc) ==
    [name |-> sc.name, steps |-> [i \in 1..Len(sc.steps) |-> SerializeStep(sc.steps[i])]]

HasDuration(e) == e.type \in {"type", "record_gif"} \/ (e.type = "command" /\ e.hasWait)

\* duration_option::deserialize, duration_ms::deserialize, duration_secs::deserialize:
\* all three hand the text to parse_duration
DeserializeStep(e) ==
    [type |-> e.type, text |-> e.text, hasWait |-> e.hasWait, name |-> e.name,
     dur |-> IF HasDuration(e) THEN parse_duration(e.dur).val ELSE 0]

LoadErr == [ok |-> FALSE, name |-> "", steps |-> <<>>]
EmptyDocument == [name |-> "", steps |-> <<>>]

\* ScriptLoader::load_from_string(yaml)
load_from_string(doc) ==
    IF \A i \in 1..Len(doc.steps) :
          HasDuration(doc.steps[i]) => parse_duration(doc.steps[i].dur).ok
    THEN [ok |-> TRUE, name |-> doc.name,
          steps |-> [i \in 1..Len(doc.steps) |-> DeserializeStep(doc.steps[i])]]
    ELSE LoadErr

\* the texts handed to parse_duration
MaxDurLen == 4
DurChars == {"0", "5", "m", "s", "h", "+"}
DurTexts == UNION {[1..n -> DurChars] : n \in 0..MaxDurLen}

\* the durations of a Script value: half a second, one second, one and a half
\* milliseconds
SerDurations == {from_millis(500), from_secs(1), from_micros(1500)}
SerSteps ==
    {CommandStep(<<"a">>, FALSE, 0)}
    \cup {CommandStep(<<"a">>, TRUE, d) : d \in SerDurations}
    \cup {TypeStep(<<"a">>, d) : d \in SerDurations}
    \cup {ScreenshotStep("s1")}
    \cup {RecordGifStep(d, "s1") : d \in SerDurations}
SerScripts ==
    {[name |-> "demo", steps |-> st] :
        st \in UNION {[1..n -> SerSteps] : n \in 0..MaxSteps}}

DurInit ==
    /\ ScriptIdle /\ BufIdle /\ RecIdle /\ GridIdle /\ LibIdle /\ CapIdle /\ GifIdle
    /\ dtext \in DurTexts
    /\ dresult = DurErr
    /\ value = EmptyDocument
    /\ spc = "text"
    /\ document = EmptyDocument
    /\ loaded = LoadErr

\* one call of parse_duration
ParseDuration ==
    /\ spc = "text"
    /\ dresult' = parse_duration(dtext)
    /\ spc' = "parsed"
    /\ UNCHANGED <<scriptVars, bufVars, recVars, gridVars, libVars, capVars, sessVars,
                   gifVars,
                   dtext, value, document, loaded>>

SpecDur == DurInit /\ [][ParseDuration]_vars

SerInit ==
    /\ ScriptIdle /\ BufIdle /\ RecIdle /\ GridIdle /\ LibIdle /\ CapIdle /\ GifIdle
    /\ dtext = <<>>
    /\ dresult = DurErr
    /\ value \in SerScripts
    /\ spc = "value"
    /\ document = EmptyDocument
    /\ loaded = LoadErr

\* serde_yaml::to_string(&script) (ScriptLoader::save_to_file)
SaveScript ==
    /\ spc = "value"
    /\ document' = Serialize(value)
    /\ spc' = "saved"
    /\ UNCHANGED <<scriptVars, bufVars, recVars, gridVars, libVars, capVars, sessVars,
                   gifVars,
                   dtext, dresult, value, loaded>>

\* ScriptLoader::load_from_string(&yaml)
LoadScript ==
    /\ spc = "saved"
    /\ loaded' = load_from_string(document)
    /\ spc' = "loaded"
    /\ UNCHANGED <<scriptVars, bufVars, recVars, gridVars, libVars, capVars, sessVars,
                   gifVars,
                   dtext, dresult, value, document>>

SerNext == SaveScript \/ LoadScript

SpecSer == SerInit /\ [][SerNext]_vars

(***************************************************************************)
(* Part 6: the GifRecorder (media/gif.rs)                                  *)
(***************************************************************************)
\* the `content` of capture_frame
FrameContents == {"c1", "c2"}
\* the bytes std::fs::read returns for the PNG generated from `content`
ImageData(content) == <<"png", content>>
\* how capture_frame ends: Ok, or at the `?` of the temporary file, of generate, or of
\* the read
CaptureOutcomes == {"ok", "tempfile", "generate", "read"}

\* (mutation) capture_frame pushing the frame before the file is read back
capture_frame_early(fs, content, outcome) ==
    IF outcome \in {"ok", "read"} THEN Append(fs, ImageData(content)) ELSE fs
\* GifRecorder::capture_frame: self.frames after the call
capture_frame(fs, content, outcome) ==
    IF outcome = "ok" THEN Append(fs, ImageData(content)) ELSE fs
\* GifRecorder::save_gif: Err for no frames, else what creating and encoding the file give
save_gif(fs, written) == fs # <<>> /\ written
\* GifRecorder::frame_count
frame_count(fs) == Len(fs)
\* GifRecorder::clear_frames: Vec::clear
clear_frames(fs) == <<>>

\* one entry of the log of calls: the operation, whether it returned Ok, the content
\* passed, self.frames before and after, and the count returned
GifCall(op, ok, content, before, after, ret) ==
    [op |-> op, ok |-> ok, content |-> content, before |-> before, after |-> after,
     ret |-> ret]

\* GifRecorder::new: no frames
GifInit ==
    /\ ScriptIdle /\ BufIdle /\ RecIdle /\ GridIdle /\ LibIdle /\ CapIdle /\ SerIdle
    /\ gframes = <<>>
    /\ glog = <<>>

GifCaptureFrame ==
    /\ Len(glog) < MaxGifCalls
    /\ \E content \in FrameContents, outcome \in CaptureOutcomes :
        /\ gframes' = capture_frame(gframes, content, outcome)
        /\ glog' = Append(glog, GifCall("capture_frame", outcome = "ok", content, gframes,
                                        gframes', 0))
    /\ UNCHANGED <<scriptVars, bufVars, recVars, gridVars, libVars, capVars, serVars, sessVars>>

GifSaveGif ==
    /\ Len(glog) < MaxGifCalls
    /\ \E written \in BOOLEAN :
        glog' = Append(glog, GifCall("save_gif", save_gif(gframes, written), "", gframes,
                                     gframes, 0))
    /\ UNCHANGED <<scriptVars, bufVars, recVars, gridVars, libVars, capVars, serVars, sessVars,
                   gframes>>

GifFrameCount ==
    /\ Len(glog) < MaxGifCalls
    /\ glog' = Append(glog, GifCall("frame_count", TRUE, "", gframes, gframes,
                                    frame_count(gframes)))
    /\ UNCHANGED <<scriptVars, bufVars, recVars, gridVars, libVars, capVars, serVars, sessVars,
                   gframes>>

GifClearFrames ==
    /\ Len(glog) < MaxGifCalls
    /\ gframes' = clear_frames(gframes)
    /\ glog' = Append(glog, GifCall("clear_frames", TRUE, "", gframes, gframes', 0))
    /\ UNCHANGED <<scriptVars, bufVars, recVars, gridVars, libVars, capVars, serVars, sessVars>>

GifNext == GifCaptureFrame \/ GifSaveGif \/ GifFrameCount \/ GifClearFrames

SpecGif == GifInit /\ [][GifNext]_vars

(***************************************************************************)
(* Part 1: properties                                                      *)
(***************************************************************************)
\* the effects of step n, in order
StepEvents(n) == SelectSeq(trace, LAMBDA e : e.step = n)
\* an effect without the recorder state it was logged with
Shape(e) == <<e.op, e.text, e.dur, e.name, e.ok>>
Shapes(es) == [k \in 1..Len(es) |-> Shape(es[k])]
Writes(es) == SelectSeq(es, LAMBDA e : e.op = "write")

RECURSIVE ConcatText(_)
ConcatText(es) == IF es = <<>> THEN <<>> ELSE Head(es).text \o ConcatText(Tail(es))

IsPrefix(s, t) == Len(s) <= Len(t) /\ SubSeq(t, 1, Len(s)) = s
InSeq(x, s) == \E k \in 1..Len(s) : s[k] = x

\* C1: for every session Terminal::new created, the termination path (kill the child,
\* then wait for it) has run exactly once when the owning function has returned,
\* with Ok or with Err, and it never runs before that.
C1_TerminatedExactlyOnce ==
    /\ pc # "returned" => dropLog = <<>>
    /\ (pc = "returned" /\ session) =>
          (dropLog = <<"kill", "wait">> /\ child = "reaped")
    /\ (pc = "returned" /\ ~session) => (dropLog = <<>> /\ trace = <<>>)
    /\ pc \notin {"new", "returned", "ret_err"} =>
          (session /\ child \in {"running", "exited"})

\* C1 witness: record_command returned an error part-way through a script, after the
\* first step had completed, and the child was killed and reaped.
C1_Witness ==
    /\ owner = "record" /\ pc = "returned" /\ result = "err"
    /\ Len(completed) = 1 /\ Len(script) = 2
    /\ dropLog = <<"kill", "wait">> /\ child = "reaped"

\* C2: in record_command, once an effect of step i has failed, nothing more is
\* performed (no write, sleep, render, start or stop of any step) and the function
\* returns the error.
C2_FailureAborts ==
    owner = "record" =>
        \A k \in 1..Len(trace) :
            ~trace[k].ok =>
                /\ k = Len(trace)
                /\ pc \in {"ret_err", "returned"}
                /\ pc = "returned" => result = "err"
                /\ trace[k].step = stepIndex + 1

\* C2 witness: the first step of a two-step script failed and record_command returned.
C2_Witness ==
    /\ owner = "record" /\ pc = "returned" /\ result = "err"
    /\ Len(script) = 2 /\ stepIndex = 0
    /\ trace # <<>> /\ ~trace[Len(trace)].ok

\* C7: record_command runs the steps as a state machine over the step index: the index
\* starts at 0, grows by one per completed step, and is N when the function returns Ok;
\* the effects appear in step order, none from a step beyond the current one.
C7_StepsInOrder ==
    owner = "record" =>
        /\ stepIndex = Len(completed)
        /\ stepIndex <= Len(script)
        /\ \A n \in 1..Len(completed) : completed[n] = n
        /\ \A k \in 1..Len(trace) :
              /\ trace[k].step <= stepIndex + 1
              /\ k < Len(trace) => trace[k].step <= trace[k + 1].step
        /\ result = "ok" => stepIndex = Len(script)

\* C7 witness: a two-step script ran to its end, both steps leaving effects.
C7_Witness ==
    /\ owner = "record" /\ result = "ok" /\ completed = <<1, 2>>
    /\ StepEvents(1) # <<>> /\ StepEvents(2) # <<>>

\* C8: a completed Command{text, wait} step wrote text followed by one line terminator
\* in one write, flushed, and then slept for wait exactly when wait is present.
C8_CommandStep ==
    \A n \in 1..Len(completed) :
        script[n].type = "command" =>
            Shapes(StepEvents(n)) =
                <<<<"write", script[n].text \o <<"\n">>, 0, "", TRUE>>,
                  <<"flush", <<>>, 0, "", TRUE>>>>
                \o (IF script[n].hasWait
                       THEN <<<<"sleep", <<>>, script[n].dur, "", TRUE>>>>
                       ELSE <<>>)

\* C8 witness: a script with a waiting and a non-waiting Command step completed.
C8_Witness ==
    /\ owner = "record" /\ result = "ok" /\ Len(script) = 2
    /\ script[1].type = "command" /\ script[1].hasWait /\ script[1].text = <<"a", "b">>
    /\ script[2].type = "command" /\ ~script[2].hasWait

\* C9: a Type{text, speed} step writes one character per write, in order: the writes
\* made so far spell a prefix of text, and all of text once the step has completed.
C9_TypeStep ==
    \A n \in 1..Len(script) :
        script[n].type = "type" /\ owner \in LoopOwners =>
            LET ws == Writes(StepEvents(n))
                good == SelectSeq(ws, LAMBDA e : e.ok)
            IN  /\ \A k \in 1..Len(good) : Len(good[k].text) = 1
                /\ IsPrefix(ConcatText(good), script[n].text)
                /\ InSeq(n, completed) =>
                      (ws = good /\ ConcatText(ws) = script[n].text)

\* C9 witness: a Type step with two different characters completed.
C9_Witness ==
    /\ owner = "record" /\ result = "ok" /\ Len(script) = 1
    /\ script[1].type = "type" /\ script[1].text = <<"a", "b">>

\* C10: a completed RecordGif{duration, name} step of record_command performed exactly
\* start_gif_recording, a sleep of duration, stop_gif_recording(name.gif), in this order;
\* recording is active during the sleep and inactive once the step is over.
C10_RecordGifStep ==
    owner = "record" =>
        /\ \A n \in 1..Len(completed) :
              script[n].type = "record_gif" =>
                  /\ Shapes(StepEvents(n)) =
                        <<<<"start", <<>>, 0, "", TRUE>>,
                          <<"sleep", <<>>, script[n].dur, "", TRUE>>,
                          <<"stop", <<>>, 0, <<script[n].name, "gif">>, TRUE>>>>
                  /\ StepEvents(n)[2].active
        /\ pc \in {"gif_sleep", "gif_stop"} => gif_generator = "Some"
        /\ pc \in {"loop", "step", "ret_ok", "returned"} => gif_generator = "None"

\* C10 witness: a RecordGif step completed and a later step is running.
C10_Witness ==
    /\ owner = "record" /\ Len(script) = 2 /\ script[1].type = "record_gif"
    /\ completed = <<1>> /\ pc = "step" /\ gif_generator = "None"

(***************************************************************************)
(* Part 2: properties                                                      *)
(***************************************************************************)
\* C3 as stated: of any two snapshots get_output returned, the earlier is a prefix of
\* the later, whatever the owner did in between (clear_buffer included).
C3_AnySnapshotsPrefix ==
    \A i, j \in 1..Len(snaps) : i < j => IsPrefix(snaps[i].val, snaps[j].val)

\* C3 amended: of two snapshots get_output returned with no clear_buffer call between
\* them, the earlier is a prefix of the later, under every interleaving with the
\* capture thread.
C3_SnapshotsPrefixBetweenClears ==
    \A i, j \in 1..Len(snaps) :
        (i < j /\ snaps[i].epoch = snaps[j].epoch) =>
            IsPrefix(snaps[i].val, snaps[j].val)

\* C3 witness: after a clear_buffer, a non-empty snapshot was followed by a longer one.
C3_Witness ==
    \E i, j \in 1..Len(snaps) :
        /\ i < j /\ snaps[i].epoch = 1 /\ snaps[j].epoch = 1
        /\ snaps[i].val # <<>> /\ Len(snaps[j].val) > Len(snaps[i].val)

\* C4 as stated: wait_for_output returns true exactly when the pattern was a substring
\* of the buffer at some moment between the call and the expiry of the timeout.
C4_TrueIffAppearedWithinTimeout ==
    wpc = "done" => ((wresult = "Ok(true)") <=> appeared)

\* C5: wait_for_output always returns; it reads the buffer at most once per started
\* 100 ms of the timeout, successive reads at least 100 ms apart, and it returns
\* Ok(false) when the pattern never was in the buffer, whatever the capture thread does.
C5_WaitTerminates ==
    /\ (wpc = "test") ~> (wpc = "done")
    /\ [](polls > 0 => (polls - 1) * PollIntervalMs < wtimeout)
    /\ [](wpc = "poll" /\ polls > 0 => elapsed >= wakeAt)
    /\ [](wpc = "done" /\ ~Contains(buffer, wpattern) => wresult = "Ok(false)")

\* C5 witness: the call returned Ok(false) after two polls while the capture thread
\* was blocked in a read with nothing to read.
C5_Witness ==
    /\ wpc = "done" /\ wresult = "Ok(false)" /\ polls = 2
    /\ cpc = "read" /\ ptyAvail = <<>> /\ ptyOpen
    /\ ~Contains(buffer, wpattern)

\* C6: wait_for_output returns Ok(true) or Ok(false) and never an error; Ok(true) only
\* when the buffer holds the pattern, and running out of time is Ok(false).
C6_NeverAnError ==
    /\ wpc = "done" => wresult \in {"Ok(true)", "Ok(false)"}
    /\ wpc # "done" => wresult = "none"
    /\ wresult = "Ok(true)" => Contains(buffer, wpattern)
    /\ (wpc = "done" /\ ~Contains(buffer, wpattern)) => wresult = "Ok(false)"

\* C6 witness: the pattern was never found and the call returned Ok(false) after the
\* capture thread had exited.
C6_Witness ==
    /\ wpc = "done" /\ wresult = "Ok(false)" /\ polls >= 1
    /\ cpc = "exited" /\ wpattern # <<>> /\ buffer # <<>>

(***************************************************************************)
(* Parts 1 and 3: properties of the capture steps and of the recorder      *)
(***************************************************************************)
Renders(es) == SelectSeq(es, LAMBDA e : e.op = "render")
EncodesOf(n) == SelectSeq(encodes, LAMBDA e : e.step = n)

\* the still images a script asks for: name.png of every Screenshot step, in step order
RECURSIVE ScreenshotPaths(_)
ScreenshotPaths(steps) ==
    IF steps = <<>> THEN <<>>
    ELSE (IF Head(steps).type = "screenshot" THEN <<<<Head(steps).name, "png">>>> ELSE <<>>)
         \o ScreenshotPaths(Tail(steps))

\* the writes and suspensions of typing `text` at `speed`
RECURSIVE TypeShapes(_, _)
TypeShapes(text, speed) ==
    IF text = <<>> THEN <<>>
    ELSE <<<<"write", <<Head(text)>>, 0, "", TRUE>>,
           <<"flush", <<>>, 0, "", TRUE>>,
           <<"sleep", <<>>, speed, "", TRUE>>>> \o TypeShapes(Tail(text), speed)

\* the writes and suspensions of a Command or Type step
InputShapes(step) ==
    IF step.type = "command"
    THEN <<<<"write", step.text \o <<"\n">>, 0, "", TRUE>>, <<"flush", <<>>, 0, "", TRUE>>>>
         \o (IF step.hasWait THEN <<<<"sleep", <<>>, step.dur, "", TRUE>>>> ELSE <<>>)
    ELSE TypeShapes(step.text, step.dur)

\* C11 as stated: for a RecordGif step that record_command has completed, exactly one
\* encode request was issued, at its stop, and the frame sequence handed over with it
\* holds at least one frame.
C11_OneEncodeWithFrames ==
    owner = "record" =>
        \A n \in 1..Len(completed) :
            script[n].type = "record_gif" =>
                /\ Len(EncodesOf(n)) = 1
                /\ EncodesOf(n)[1].frames >= 1

\* C12: a frame is rendered or appended only by a capture_gif_frame call made while a
\* recording is active, that is after a successful start_gif_recording with no
\* stop_gif_recording since; a capture_gif_frame call made before any start or after a
\* stop renders nothing, appends nothing and returns Ok.
C12_FramesOnlyWhileRecording ==
    \A k \in 1..Len(callLog) :
        LET c == callLog[k]
            started == \E j \in 1..(k - 1) :
                          /\ callLog[j].op = "start" /\ callLog[j].ok
                          /\ \A i \in (j + 1)..(k - 1) : callLog[i].op # "stop"
        IN  /\ (c.rendered \/ c.framesAfter > c.framesBefore) =>
                  (c.op = "capture" /\ started)
            /\ (c.op = "capture" /\ ~started) =>
                  (c.ok /\ ~c.rendered /\ c.framesAfter = c.framesBefore /\ ~c.activeAfter)

\* C12 witness: a frame was captured between a start and a stop, and a capture_gif_frame
\* call after the stop did nothing.
C12_Witness ==
    /\ Len(callLog) = 4
    /\ callLog[1].op = "start" /\ callLog[1].ok
    /\ callLog[2].op = "capture" /\ callLog[2].rendered /\ callLog[2].framesAfter = 1
    /\ callLog[3].op = "stop"
    /\ callLog[4].op = "capture" /\ callLog[4].ok /\ ~callLog[4].rendered

\* C13: record_command issues one still-image render request per Screenshot step it
\* completes, for name.png of that step, and none in a Command, Type or RecordGif step;
\* after a run to completion the render requests are those of the Screenshot steps, in
\* step order.
C13_OneRenderPerScreenshot ==
    owner = "record" =>
        /\ \A n \in 1..Len(completed) :
              Shapes(Renders(StepEvents(n))) =
                  IF script[n].type = "screenshot"
                  THEN <<<<"render", <<>>, 0, <<script[n].name, "png">>, TRUE>>>>
                  ELSE <<>>
        /\ \A k \in 1..Len(trace) :
              trace[k].op = "render" => script[trace[k].step].type = "screenshot"
        /\ result = "ok" =>
              [k \in 1..Len(Renders(trace)) |-> Renders(trace)[k].name]
                  = ScreenshotPaths(script)

\* C13 witness: a script of two Screenshot steps with different names ran to completion.
C13_Witness ==
    /\ owner = "record" /\ result = "ok" /\ Len(script) = 2
    /\ script[1].type = "screenshot" /\ script[1].name = "s2"
    /\ script[2].type = "screenshot" /\ script[2].name = "s1"
    /\ Len(Renders(trace)) = 2

\* C14 as stated: a start_gif_recording call made while a recording is active returns
\* an error and leaves the active recording and its frames as they were.
C14_StartWhileActiveIsError ==
    \A k \in 1..Len(callLog) :
        (callLog[k].op = "start" /\ callLog[k].activeBefore) =>
            /\ ~callLog[k].ok
            /\ callLog[k].activeAfter
            /\ callLog[k].framesAfter = callLog[k].framesBefore

\* C15: stop_gif_recording never fails and leaves the recorder inactive; called while no
\* recording is active it issues no encode request and changes nothing, called while
\* one is active it issues one; so the second of two stops in a row does nothing.
C15_StopWhenInactiveIsNoOp ==
    \A k \in 1..Len(callLog) :
        callLog[k].op = "stop" =>
            /\ callLog[k].ok /\ ~callLog[k].activeAfter
            /\ ~callLog[k].activeBefore =>
                  /\ callLog[k].encodesAfter = callLog[k].encodesBefore
                  /\ callLog[k].framesAfter = callLog[k].framesBefore
            /\ callLog[k].activeBefore =>
                  callLog[k].encodesAfter = callLog[k].encodesBefore + 1
            /\ (k < Len(callLog) /\ callLog[k + 1].op = "stop") =>
                  /\ ~callLog[k + 1].activeBefore
                  /\ callLog[k + 1].encodesAfter = callLog[k].encodesAfter

\* C15 witness: a stop before any start, then a start and two stops in a row, with one
\* encode request in all.
C15_Witness ==
    /\ Len(callLog) = 4 /\ Len(encodes) = 1 /\ gif_generator = "None"
    /\ callLog[1].op = "stop" /\ ~callLog[1].activeBefore
    /\ callLog[2].op = "start" /\ callLog[2].ok
    /\ callLog[3].op = "stop" /\ callLog[3].activeBefore
    /\ callLog[4].op = "stop"

\* C16: demo_command performs writes, flushes and sleeps only, all of them in Command
\* and Type steps, where they are the ones record_command performs for the same step;
\* it never starts or stops a recording; with `interactive` it reads one confirmation
\* before every step it reaches, skipped steps included, and without it none.
C16_DemoSkipsCaptures ==
    /\ owner \in {"demo", "record"} =>
          \A n \in 1..Len(completed) :
              script[n].type \in {"command", "type"} =>
                  Shapes(StepEvents(n)) = InputShapes(script[n])
    /\ owner = "demo" =>
          /\ \A k \in 1..Len(trace) :
                /\ trace[k].op \in {"write", "flush", "sleep"}
                /\ script[trace[k].step].type \in {"command", "type"}
          /\ gif_generator = "None" /\ encodes = <<>> /\ frames = 0
          /\ \A n \in 1..Len(confirms) : confirms[n] = n
          /\ interactive =>
                /\ Len(confirms) \in {stepIndex, stepIndex + 1}
                /\ Len(completed) <= Len(confirms)
                /\ \A k \in 1..Len(trace) : trace[k].step <= Len(confirms)
                /\ pc \in {"step", "wait", "type", "type_sleep"} =>
                      Len(confirms) = stepIndex + 1
                /\ result = "ok" => Len(confirms) = Len(script)
          /\ ~interactive => confirms = <<>>

\* C16 witness: an interactive demo of a Screenshot step followed by a Command step ran
\* to completion with two confirmations.
C16_Witness ==
    /\ owner = "demo" /\ interactive /\ result = "ok" /\ Len(script) = 2
    /\ script[1].type = "screenshot" /\ script[2].type = "command"
    /\ confirms = <<1, 2>> /\ StepEvents(1) = <<>> /\ StepEvents(2) # <<>>

(***************************************************************************)
(* Part 4: properties                                                      *)
(***************************************************************************)
Blank == [ch |-> " ", bold |-> FALSE]

\* the rows of the grid as characters, right-trimmed and joined by line feeds
CellText(buf) == Join([y \in 1..Len(buf) |-> trim_end(RowChars(buf[y]))])
\* the row and the column of the i-th character (from 0) of such a text
RowOf(t, i) == Cardinality({k \in 1..i : t[k] = "\n"})
ColOf(t, i) ==
    LET feeds == {k \in 1..i : t[k] = "\n"}
    IN  i - (IF feeds = {} THEN 0 ELSE CHOOSE k \in feeds : \A j \in feeds : j <= k)

\* C17: after resize(new_size) the grid has new_size.height rows of new_size.width
\* cells, a cell inside both the old and the new size is the cell that was there before
\* the call, every other cell is a blank with default attributes, and title and
\* cursor_visible are what they were.
C17_ResizeKeepsOverlap ==
    resizeRun > 0 =>
        /\ size = new_size
        /\ Len(grid) = size.height
        /\ \A y \in 1..Len(grid) : Len(grid[y]) = size.width
        /\ \A y \in 1..size.height : \A x \in 1..size.width :
              grid[y][x] = IF x <= Min(prev.size.width, size.width)
                              /\ y <= Min(prev.size.height, size.height)
                           THEN prev.grid[y][x]
                           ELSE Blank
        /\ title = prev.title /\ cursor_visible = prev.cursor_visible

\* C17 witness: a 2x1 grid holding two letters was resized to 1x2: the first letter was
\* kept, the second was dropped, and the new row is blank.
C17_Witness ==
    /\ resizeRun = 1 /\ ~panicked
    /\ prev.size = [width |-> 2, height |-> 1] /\ size = [width |-> 1, height |-> 2]
    /\ prev.grid[1][1].ch = "a" /\ prev.grid[1][2].ch = "b"
    /\ grid[1][1].ch = "a" /\ grid[2][1] = Blank

\* C18: after resize(w2, h2) followed by resize(w1, h1) on a grid of size (w1, h1), a
\* cell inside both sizes is the original cell and every other cell of the grid is
\* blank.
C18_ResizeRoundTrip ==
    (resizeRun = 2 /\ size = prev2.size) =>
        \A y \in 1..size.height : \A x \in 1..size.width :
            grid[y][x] = IF x <= Min(prev2.size.width, prev.size.width)
                            /\ y <= Min(prev2.size.height, prev.size.height)
                         THEN prev2.grid[y][x]
                         ELSE Blank

\* C18 witness: a 2x2 grid with letters in its first row went to 1x2 and back: the
\* letter in the first column is still there, the one in the second column is gone.
C18_Witness ==
    /\ resizeRun = 2 /\ ~panicked
    /\ prev2.size = [width |-> 2, height |-> 2] /\ size = prev2.size
    /\ prev.size = [width |-> 1, height |-> 2]
    /\ prev2.grid[1][1].ch = "a" /\ prev2.grid[1][2].ch = "b"
    /\ grid[1][1].ch = "a" /\ grid[1][2] = Blank

\* C19 as stated: the cursor of a TerminalState that started inside the grid is inside
\* the grid after every resize; a resize leaves a coordinate that is inside the new
\* size alone and moves one that is not to the last column or row.
C19_CursorStaysInside ==
    /\ cursor.x < size.width /\ cursor.y < size.height
    /\ resizeRun > 0 =>
          /\ cursor.x = IF prev.cursor.x < size.width THEN prev.cursor.x ELSE size.width - 1
          /\ cursor.y = IF prev.cursor.y < size.height THEN prev.cursor.y ELSE size.height - 1

\* C20 as stated: when the text first occurs in the grid at row r, column c (counted in
\* cells from the start of row r), find_text returns the position x = c, y = r.
C20_FindReturnsCell ==
    (needle # <<>> /\ Contains(CellText(grid), needle)) =>
        LET t == CellText(grid)
            i == str_find(t, needle)
        IN  found = [some |-> TRUE, x |-> ColOf(t, i), y |-> RowOf(t, i)]

(***************************************************************************)
(* Part 5: properties                                                      *)
(***************************************************************************)
AllDigits(s) == s # <<>> /\ \A i \in 1..Len(s) : IsDigit(s[i])
\* the text is a decimal number followed by the unit, and nothing else
NumberWithUnit(s, unit) ==
    /\ ends_with(s, unit)
    /\ AllDigits(SubSeq(s, 1, Len(s) - Len(unit)))
NumberOf(s, unit) == DigitsValue(SubSeq(s, 1, Len(s) - Len(unit)))

\* C21: a Script that was serialized and loaded back has the same name, the same
\* number of steps, and in every step the same kind and the same field values,
\* every duration denoting the same elapsed time.
C21_RoundTrip ==
    (spc = "loaded") =>
        /\ loaded.ok
        /\ loaded.name = value.name
        /\ Len(loaded.steps) = Len(value.steps)
        /\ \A i \in 1..Len(value.steps) :
            /\ loaded.steps[i].type = value.steps[i].type
            /\ loaded.steps[i].text = value.steps[i].text
            /\ loaded.steps[i].name = value.steps[i].name
            /\ loaded.steps[i].hasWait = value.steps[i].hasWait
            /\ loaded.steps[i].dur = value.steps[i].dur

\* C22: parse_duration returns a duration exactly for the texts <n>ms and <n>s
\* with n a decimal number, n milliseconds or n seconds; every other text is a
\* parse error.
C22_AcceptsExactly ==
    (spc = "parsed") =>
        /\ dresult.ok <=> (NumberWithUnit(dtext, <<"m", "s">>)
                             \/ NumberWithUnit(dtext, <<"s">>))
        /\ NumberWithUnit(dtext, <<"m", "s">>) =>
              dresult.val = from_millis(NumberOf(dtext, <<"m", "s">>))
        /\ NumberWithUnit(dtext, <<"s">>) =>
              dresult.val = from_secs(NumberOf(dtext, <<"s">>))

(***************************************************************************)
(* Parts 1 and 2: further properties                                       *)
(***************************************************************************)
Sleeps(evs) == SelectSeq(evs, LAMBDA e : e.op = "sleep")

\* C27 as stated: when Kla::screenshot(command) has returned, the session had started
\* and the command was written and flushed, the call returned Ok and a screenshot
\* was rendered during it.
C27_ReturnsScreenshot ==
    (/\ owner = "kla_screenshot" /\ pc = "returned"
     /\ \E k \in 1..Len(trace) : trace[k].op = "flush" /\ trace[k].ok) =>
        /\ result = "ok"
        /\ \E k \in 1..Len(trace) : trace[k].op = "render" /\ trace[k].ok
        /\ screenshots # <<>>

\* C28 as stated: a completed Type step on a text of n >= 1 characters made n writes
\* and n - 1 suspensions, and its last effect is not a suspension.
C28_SleepsBetweenCharacters ==
    \A n \in 1..Len(completed) :
        (script[n].type = "type" /\ script[n].text # <<>>) =>
            LET evs == StepEvents(n)
            IN  /\ Len(Writes(evs)) = Len(script[n].text)
                /\ Len(Sleeps(evs)) = Len(script[n].text) - 1
                /\ evs[1].op # "sleep"
                /\ evs[Len(evs)].op # "sleep"

\* C29: in a Type step no write is retried or resumed. The k-th write of the step
\* carries the k-th character of the text and nothing else, so every character is
\* handed to the writer at most once; an effect that failed is the last effect of the
\* session (no later character is written, no suspension follows) and the owning
\* function returns the error.
C29_NoRetry ==
    \A n \in 1..Len(script) :
        (script[n].type = "type" /\ owner \in LoopOwners) =>
            LET evs == StepEvents(n)
                ws == Writes(evs)
            IN  /\ Len(ws) <= Len(script[n].text)
                /\ \A k \in 1..Len(ws) :
                      IsPrefix(ws[k].text, <<script[n].text[k]>>)
                /\ \A k \in 1..Len(trace) :
                      (trace[k].step = n /\ ~trace[k].ok) =>
                          /\ k = Len(trace)
                          /\ pc \in {"ret_err", "returned"}
                          /\ pc = "returned" => result = "err"
                          /\ ~InSeq(n, completed)

\* C29 witness: the write of the second of three characters failed, and the owning
\* function has returned.
C29_Witness ==
    /\ owner \in LoopOwners /\ pc = "returned" /\ result = "err"
    /\ Len(script) = 1 /\ script[1].type = "type" /\ Len(script[1].text) = 3
    /\ Len(Writes(trace)) = 2 /\ Len(Sleeps(trace)) = 1
    /\ trace[Len(trace)].op = "write" /\ ~trace[Len(trace)].ok

\* the chunk the capture thread has read and not yet pushed
Pending == IF cpc \in {"lock_buffer", "push"} THEN chunk ELSE <<>>
\* the number of bytes read whose chunk has been pushed to the buffer
BytesAppended == Len(readBytes) - Len(Pending)
\* the capture thread has something to do: it is neither blocked in a read on an
\* open PTY without data, nor waiting for the buffer mutex, nor gone
CaptureReady ==
    \/ cpc \in {"push", "sleep"}
    \/ cpc = "lock_buffer" /\ bufLock = "free"
    \/ cpc = "read" /\ (ptyAvail # <<>> \/ ~ptyOpen)
CaptureStep ==
    CaptureRead \/ CaptureEnd \/ CaptureLock \/ CapturePush \/ CaptureSleep

\* C23: when the read of the capture thread reports the end of the stream or an error,
\* the thread exits. From then on it reads and appends nothing, the buffer keeps its
\* content, and wait_for_output goes on returning Ok: true exactly when the pattern is
\* in that buffer at a poll, false at the timeout.
C23_ExitOnEnd ==
    [][/\ (cpc = "read" /\ ptyAvail = <<>> /\ ~ptyOpen /\ cpc' # cpc) => cpc' = "exited"
       /\ cpc = "exited" =>
            /\ cpc' = "exited"
            /\ UNCHANGED <<buffer, chunk, ptyAvail, readBytes, appended, bufLock>>
            /\ wresult' \in {wresult, "Ok(true)", "Ok(false)"}
            /\ (wpc = "poll" /\ wpc' # wpc) =>
                  (wresult' = "Ok(true)" <=> Contains(buffer, wpattern))]_vars

\* C23 witness: the capture thread has exited with text in the buffer, and a
\* wait_for_output call is between its second and its third poll.
C23_Witness ==
    /\ cpc = "exited" /\ buffer # <<>>
    /\ wpc = "sleep" /\ polls >= 2 /\ wresult = "none"

\* C24: the capture thread holds the buffer mutex exactly between taking it and the end
\* of push_str, the owner exactly while get_output copies the text: not during a PTY
\* read, not during a sleep. A get_output call that waits for the mutex gets it, and a
\* capture thread that waits for it gets it.
C24_LockScope ==
    /\ [](bufLock = "capture" <=> cpc = "push")
    /\ [](bufLock = "owner" <=> ipc = "copy")
    /\ (ipc = "lock_buffer") ~> (ipc = "copy")
    /\ (cpc = "lock_buffer") ~> (cpc = "sleep")

\* C24 witness: get_output holds the mutex and copies a non-empty buffer while the
\* capture thread is blocked in a read on an open PTY without data.
C24_Witness ==
    /\ ipc = "copy" /\ bufLock = "owner" /\ buffer # <<>>
    /\ cpc = "read" /\ ptyAvail = <<>> /\ ptyOpen

\* C25: clear_buffer empties the buffer and changes nothing else (child, PTY, capture
\* thread, mutex, snapshots already taken). The buffer always holds exactly the texts
\* pushed since the latest clear, and so does every snapshot taken since that clear,
\* up to the moment it was taken.
C25_ClearOnlyEmpties ==
    /\ [](buffer = appended)
    /\ [](\A k \in 1..Len(snaps) :
             snaps[k].epoch = epoch => IsPrefix(snaps[k].val, appended))
    /\ [][epoch' # epoch =>
             /\ buffer' = <<>>
             /\ UNCHANGED <<child, dropLog, ptyAvail, emitted, ptyOpen, cpc, chunk,
                            bufLock, snaps, readBytes>>]_vars

\* C25 witness: "a" was captured and cleared, "b" was pushed after the clear, and the
\* snapshot taken afterwards is "b".
C25_Witness ==
    /\ epoch = 1 /\ readBytes = <<"a", "b">> /\ buffer = <<"b">>
    /\ snaps # <<>>
    /\ snaps[Len(snaps)] = [val |-> <<"b">>, epoch |-> 1]

\* C26: while the owner's task is suspended the capture thread can take its next step
\* whenever it has one, and every byte the shell has written is eventually read and
\* pushed to the buffer, whether or not the owner is ever resumed.
C26_CaptureNotStalled ==
    /\ []((ipc = "suspended" /\ CaptureReady) => ENABLED CaptureStep)
    /\ \A n \in 1..(MaxOut + 1) : (emitted >= n) ~> (BytesAppended >= n)

\* C26 witness: text was pushed to the buffer while the owner was suspended.
C26_Witness ==
    /\ ipc = "suspended" /\ Len(buffer) > seenAtSuspend
    /\ BytesAppended = emitted /\ emitted > 0

\* C30 as stated: as long as clear_buffer has not been called, the bytes of the
\* buffer, followed by the chunk read and not yet pushed, are the bytes read so far.
C30_BufferIsConcatenation ==
    (epoch = 0) => (Encode(buffer) \o Pending = readBytes)

(***************************************************************************)
(* Part 1: further properties                                              *)
(***************************************************************************)
\* C35 as stated: when Terminal::new has returned an error (the owning function
\* returned without a Terminal), no child process is left running or unreaped, and
\* no capture thread was started.
C35_NoChildLeftOnError ==
    (pc = "returned" /\ ~session) =>
        /\ child \in {"none", "reaped"}
        /\ readers = 0

\* what record_command does on the session and the recorder in one completed step
RecordCommandShapes(step) ==
    IF step.type \in {"command", "type"} THEN InputShapes(step)
    ELSE IF step.type = "screenshot"
    THEN <<<<"render", <<>>, 0, PngPath(step.name), TRUE>>>>
    ELSE <<<<"start", <<>>, 0, "", TRUE>>,
           <<"sleep", <<>>, step.dur, "", TRUE>>,
           <<"stop", <<>>, 0, GifPath(step.name), TRUE>>>>

\* the capture `op` that produced the file `path` was carried out
Captured(op, path) ==
    \E k \in 1..Len(trace) : trace[k].op = op /\ trace[k].ok /\ trace[k].name = path

\* C36 as stated: in every step it completes Kla::execute_script performs the writes,
\* suspensions and capture calls record_command performs for that step, and every
\* path in `recordings` or `screenshots` names an artifact whose capture was carried
\* out.
C36_DrivesLikeRecordCommand ==
    owner = "execute_script" =>
        /\ \A n \in 1..Len(completed) :
              Shapes(StepEvents(n)) = RecordCommandShapes(script[n])
        /\ \A k \in 1..Len(recordings) : Captured("stop", recordings[k])
        /\ \A k \in 1..Len(screenshots) : Captured("render", screenshots[k])

(***************************************************************************)
(* Part 4: further properties                                              *)
(***************************************************************************)
\* the grid has size.height rows of size.width cells
GridMatchesSize ==
    /\ Len(grid) = size.height
    /\ \A y \in 1..Len(grid) : Len(grid[y]) = size.width

\* the latest step was the call set_char(lastSet'.x, lastSet'.y, _)
SetCharStep == sets' = sets + 1

\* C32: after any sequence of new, set_char and resize the grid has exactly size.height
\* rows of exactly size.width cells each; set_char(x, y, c) leaves every cell other than
\* (x, y) as it was, and leaves the whole grid as it was when (x, y) is out of bounds.
C32_GridShape ==
    /\ []GridMatchesSize
    /\ [][SetCharStep =>
             LET x == lastSet'.x
                 y == lastSet'.y
             IN  /\ size' = size
                 /\ \A j \in 1..size.height, i \in 1..size.width :
                       (i - 1 # x \/ j - 1 # y) => grid'[j][i] = grid[j][i]
                 /\ ~(x < size.width /\ y < size.height) => grid' = grid]_vars

\* C32 witness: on a grid of two rows and two columns a set_char in bounds wrote a
\* character, and the set_char after it was out of bounds.
C32_Witness ==
    /\ size = TerminalSize(2, 2) /\ sets = 2
    /\ lastSet.some /\ lastSet.x >= size.width
    /\ \E j \in 1..2, i \in 1..2 :
          /\ grid[j][i].ch = "a"
          /\ \A j2 \in 1..2, i2 \in 1..2 : <<j2, i2>> # <<j, i>> => grid[j2][i2] = Blank

\* C33 as stated: find_text(t) returns a position exactly when contains_text(t) is
\* true, and the position lies inside the grid: y < size.height and x at most the
\* length of the trimmed text of row y (counted in bytes, as x is).
C33_FindAgreesWithContains ==
    contained # "none" =>
        /\ found.some <=> contained = "true"
        /\ found.some =>
              /\ found.y < size.height
              /\ found.x <= Len(Encode(trim_end(RowChars(grid[found.y + 1]))))

\* C34 as stated: no resize performs a 16-bit subtraction that overflows: the latest
\* resize, from the state `prev` to the size new_size, neither panicked nor wrapped in
\* the adjustment of cursor.x or of cursor.y.
C34_ResizeNoOverflow ==
    /\ ~panicked
    /\ (resizeRun >= 1 /\ new_size # prev.size) =>
          /\ ~ClampOverflows(prev.cursor.x, new_size.width)
          /\ ~ClampOverflows(prev.cursor.y, new_size.height)

(***************************************************************************)
(* Part 6: properties                                                      *)
(***************************************************************************)
\* the number of capture_frame calls of the log that returned Ok after its last
\* clear_frames
RECURSIVE CapturedSinceClear(_)
CapturedSinceClear(log) ==
    IF log = <<>> THEN 0
    ELSE LET e == log[Len(log)]
             front == SubSeq(log, 1, Len(log) - 1)
         IN  IF e.op = "clear_frames" THEN 0
             ELSE CapturedSinceClear(front) + (IF e.op = "capture_frame" /\ e.ok THEN 1 ELSE 0)

\* C31: frame_count() is the number of capture_frame calls that succeeded since the
\* recorder was created or last cleared; a successful capture_frame adds exactly one
\* frame at the end, a failed one adds none, save_gif and frame_count change no frame,
\* and clear_frames leaves no frame.
C31_FrameCount ==
    /\ frame_count(gframes) = CapturedSinceClear(glog)
    /\ \A i \in 1..Len(glog) :
          LET e == glog[i]
          IN  /\ e.before = IF i = 1 THEN <<>> ELSE glog[i - 1].after
              /\ (e.op = "capture_frame" /\ e.ok) =>
                    /\ Len(e.after) = Len(e.before) + 1
                    /\ SubSeq(e.after, 1, Len(e.before)) = e.before
                    /\ e.after[Len(e.after)] = ImageData(e.content)
              /\ (e.op = "capture_frame" /\ ~e.ok) => e.after = e.before
              /\ e.op = "save_gif" => e.after = e.before
              /\ e.op = "clear_frames" => e.after = <<>>
              /\ e.op = "frame_count" =>
                    /\ e.after = e.before
                    /\ e.ret = CapturedSinceClear(SubSeq(glog, 1, i - 1))
    /\ glog # <<>> => gframes = glog[Len(glog)].after

\* C31 witness: a frame was captured, the frames were cleared, another frame was
\* captured, the frames were saved, and frame_count then returned 1.
C31_Witness ==
    /\ Len(glog) = 5
    /\ glog[1].op = "capture_frame" /\ glog[1].ok /\ glog[1].content = "c1"
    /\ glog[2].op = "clear_frames"
    /\ glog[3].op = "capture_frame" /\ glog[3].ok /\ glog[3].content = "c2"
    /\ glog[4].op = "save_gif" /\ glog[4].ok
    /\ glog[5].op = "frame_count" /\ glog[5].ret = 1

====
